---- MODULE Spec2Model ----
(***************************************************************************)
(* Source resolution pipeline and archive search engine of pydocs-cloud.   *)
(*                                                                         *)
(* The module holds several specifications over one set of variables, one  *)
(* per subsystem; a subsystem's specification leaves the other             *)
(* subsystems' variables at their initial values.                          *)
(*                                                                         *)
(*   SpecCommit   CommitCacheService.get_commit_sha, concurrent callers    *)
(*   SpecResolve  _resolve_source_code, concurrent callers on one package  *)
(*   SpecGrep     the scan loop of grep over the members of an archive     *)
(*   SpecTool     one glob, grep or read call from invocation to its       *)
(*                returned text or propagated exception                    *)
(*   SpecRead     read, from the decoded file content to the text          *)
(*   SpecGlob     glob, from the archive's member list to the text         *)
(*   SpecCount    grep in count mode on one file                           *)
(*   SpecArchive  get_file_tree and get_file_content on one archive        *)
(*   SpecSelect   resolve_package choosing a release                       *)
(*   SpecExtract  extract_github_candidates on one package's metadata      *)
(*   SpecKey      APIKeyService and the MCP token verifier, concurrent     *)
(*   SpecRegex    _compile_re2 and grep's handling of its outcome          *)
(*   SpecContent  grep in content mode on one file, either engine          *)
(*   SpecOutput   grep joining, truncating and labelling its entries       *)
(*   SpecBinary   grep's scan loop, then read on the archive it scanned    *)
(*   SpecRank     _find_github_repos ranking candidates by README score    *)
(*   SpecCache    a gcs_cache or nfs_gcs_cache call: reads, then the write *)
(*   SpecPath     resolve_package past the lookup: repository or registry  *)
(*   SpecUpsert   ReleaseRepository.upsert on the rows of one package      *)
(*   SpecPin      release upserts next to get_commit_sha for one release   *)
(*   SpecFeed     runs of the npm-sync function over the changes feed      *)
(*   SpecRegister phase 1 of _run_sync_loop, with stops and restarts       *)
(*   SpecProcess  phase 2 of _run_sync_loop, fairly scheduled              *)
(***************************************************************************)
EXTENDS Integers, Sequences, FiniteSets, TLC

VARIABLES
    commit_cache,   \* rows of table commit_cache (db/models.py DBCommitCache)
    ccall,          \* per get_commit_sha call: position and locals
    package,        \* the PackageRecord of the package being resolved
    rcall,          \* per _resolve_source_code call: position and locals
    gcall,          \* one grep call scanning an archive: position and locals
    tcall,          \* one glob/grep/read tool call: position, locals, outcome
    readcall,       \* one read call past get_file_content: inputs and response
    globcall,       \* one glob call past resolve_package: inputs, files, response
    countcall,      \* grep in count mode on one file: pattern, text, entries
    acall,          \* an archive listed by get_file_tree and read back
    selcall,        \* resolve_package choosing the release of a package
    xcall,          \* extract_github_candidates on one package's metadata
    api_keys,       \* rows of table api_keys (db/models.py DBAPIKey)
    kcall,          \* per API key service call or token verification: position and locals
    recall,         \* grep compiling its pattern: inputs, engine, outcome
    mcall,          \* grep in content mode on one file: bytes, pattern, engine, entries
    ocall,          \* grep past its scan loop: the kept entries and the returned text
    bcall,          \* read of one file of the archive a grep call searched
    fcall,          \* one _find_github_repos call: README tasks, scores, ranking
    cache_store,    \* the objects at one cache path: NFS file and bucket blob
    clock,          \* the reading of time.time()
    wcall,          \* per call of a cached function: position, what it read, outcome
    pcall,          \* one resolve_package call past authentication: path taken, fetchers called, outcome
    releases,       \* rows of table releases of one package (db/models.py DBRelease)
    upserts,        \* history: the timestamps upserted so far for each release
    changes,        \* the registry's changes feed: document id per sequence number
    last_seq,       \* the cursor persisted in the state blob last_seq.json
    fetched,        \* history: the changes whose package had a packument fetch in a run that read them
    ncall,          \* one run of npm_sync: position and locals
    packages,       \* rows of table packages for ecosystem npm (db/models.py DBPackage)
    kv_store,       \* the value stored under npm_changes_last_seq (0 when the key is absent)
    registry,       \* the npm registry: its changes feed and what it answers for each package
    lcall           \* _run_sync_loop: position, the stream's cursor, the batch at hand

commitVars == <<commit_cache, ccall>>
resolveVars == <<package, rcall>>
grepVars == <<gcall>>
toolVars == <<tcall>>
readVars == <<readcall>>
globVars == <<globcall>>
countVars == <<countcall>>
archiveVars == <<acall>>
selectVars == <<selcall>>
extractVars == <<xcall>>
keyVars == <<api_keys, kcall>>
regexVars == <<recall>>
contentVars == <<mcall>>
outputVars == <<ocall>>
binaryVars == <<bcall>>
rankVars == <<fcall>>
cacheVars == <<cache_store, clock, wcall>>
pathVars == <<pcall>>
releaseVars == <<releases, upserts>>
feedVars == <<changes, last_seq, fetched, ncall>>
loopVars == <<packages, kv_store, registry, lcall>>
vars == <<commit_cache, ccall, package, rcall, gcall, tcall, readcall, globcall, countcall, acall, selcall, xcall, api_keys, kcall, recall, mcall, ocall, bcall, fcall, cache_store, clock, wcall, pcall, releases, upserts, changes, last_seq, fetched, ncall, packages, kv_store, registry, lcall>>

None == "None"

(***************************************************************************)
(* Commit resolver: routes/v1/commit_cache, utils/github_commits.py        *)
(***************************************************************************)

\* Bounds of the commit-resolver model.
NumCommitCalls == 3
MaxTimestamp == 2

CommitCalls == 1..NumCommitCalls
GithubUrls == {"https://github.com/a/b"}
Timestamps == 1..MaxTimestamp
Shas == {"sha1", "sha2"}

\* What GET /repos/{owner}/{repo}/commits?until=..&per_page=1 can answer: an
\* HTTP error status, or a JSON list of at most one commit (the most recent
\* commit at or before the timestamp, none when the history starts later).
UpstreamResponses ==
    {[status |-> "error", commits |-> <<>>]}
        \cup {[status |-> "ok", commits |-> <<>>]}
        \cup {[status |-> "ok", commits |-> <<[sha |-> s]>>] : s \in Shas}

\* get_commit_at_timestamp negative-caching variant: an empty history yields a
\* value instead of the 404.
get_commit_at_timestamp_NoRaise(response) ==
    IF response.status = "error"
    THEN [ok |-> FALSE, error |-> "ClientResponseError", sha |-> None]
    ELSE IF response.commits = <<>>
    THEN [ok |-> TRUE, error |-> None, sha |-> None]
    ELSE [ok |-> TRUE, error |-> None, sha |-> response.commits[1].sha]

\* get_commit_at_timestamp: raise_for_status, then 404 on an empty list, else
\* the first commit's sha.
get_commit_at_timestamp(response) ==
    IF response.status = "error"
    THEN [ok |-> FALSE, error |-> "ClientResponseError", sha |-> None]
    ELSE IF response.commits = <<>>
    THEN [ok |-> FALSE, error |-> "HTTPException404", sha |-> None]
    ELSE [ok |-> TRUE, error |-> None, sha |-> response.commits[1].sha]

\* CommitCacheRepository.retrieve: the rows the SELECT matches, then scalar_one.
CommitCacheRows(url, ts) ==
    {r \in commit_cache : r.github_url = url /\ r.timestamp = ts}

CommitCacheRetrieve(url, ts) ==
    LET rows == CommitCacheRows(url, ts) IN
    IF rows = {} THEN [kind |-> "NoResultFound", commit_sha |-> None]
    ELSE IF Cardinality(rows) > 1
    THEN [kind |-> "MultipleResultsFound", commit_sha |-> None]
    ELSE [kind |-> "one", commit_sha |-> (CHOOSE r \in rows : TRUE).commit_sha]

\* UniqueConstraint("github_url", "timestamp") of DBCommitCache.
unique_commit_cache(url, ts) == CommitCacheRows(url, ts) # {}

\* CommitCacheRepository.create written as an upsert (last write wins).
CommitCacheCreate_Upsert(id, url, ts, sha) ==
    [ok |-> TRUE,
     rows |-> (commit_cache \ CommitCacheRows(url, ts))
                \cup {[id |-> id, github_url |-> url, timestamp |-> ts, commit_sha |-> sha]}]

\* CommitCacheRepository.create whose commit is lost (the row never lands).
CommitCacheCreate_NoCommit(id, url, ts, sha) ==
    [ok |-> TRUE, rows |-> commit_cache]

\* CommitCacheRepository.create: add + commit; the commit raises IntegrityError
\* when the unique constraint is violated.  Yields the table after the call.
CommitCacheCreate(id, url, ts, sha) ==
    IF unique_commit_cache(url, ts)
    THEN [ok |-> FALSE, rows |-> commit_cache]
    ELSE [ok |-> TRUE,
          rows |-> commit_cache
                     \cup {[id |-> id, github_url |-> url, timestamp |-> ts, commit_sha |-> sha]}]

\* The call has not queried upstream.
NotQueried == [status |-> "none", commits |-> <<>>]

IdleCommitCall ==
    [pc |-> "idle", github_url |-> None, timestamp |-> 0,
     commit_sha |-> None, error |-> None, queries |-> 0, commits |-> NotQueried]

InitCommitVars ==
    /\ commit_cache = {}
    /\ ccall = [c \in CommitCalls |-> IdleCommitCall]

\* get_commit_sha, up to its first await: cached = repository.retrieve(...).
\* A hit returns cached.commit_sha; NoResultFound enters the except branch.
GetCommitSha_Retrieve(c, url, ts) ==
    /\ ccall[c].pc = "idle"
    /\ LET res == CommitCacheRetrieve(url, ts) IN
       ccall' = [ccall EXCEPT ![c] =
            [@ EXCEPT !.github_url = url, !.timestamp = ts,
                      !.pc = IF res.kind = "one" THEN "done"
                             ELSE IF res.kind = "NoResultFound" THEN "query"
                             ELSE "failed",
                      !.commit_sha = res.commit_sha,
                      !.error = IF res.kind = "MultipleResultsFound"
                                THEN "MultipleResultsFound" ELSE None]]
    /\ UNCHANGED <<commit_cache, resolveVars, grepVars, toolVars, readVars, globVars, countVars, archiveVars, selectVars, extractVars, keyVars, regexVars, contentVars, outputVars, binaryVars, rankVars, cacheVars, pathVars, releaseVars, feedVars, loopVars>>

\* The except branch: commit_sha = await get_commit_at_timestamp(...).
GetCommitSha_Query(c, response) ==
    /\ ccall[c].pc = "query"
    /\ LET out == get_commit_at_timestamp(response) IN
       ccall' = [ccall EXCEPT ![c] =
            [@ EXCEPT !.queries = @ + 1,
                      !.commits = response,
                      !.pc = IF out.ok THEN "create" ELSE "failed",
                      !.commit_sha = out.sha,
                      !.error = out.error]]
    /\ UNCHANGED <<commit_cache, resolveVars, grepVars, toolVars, readVars, globVars, countVars, archiveVars, selectVars, extractVars, keyVars, regexVars, contentVars, outputVars, binaryVars, rankVars, cacheVars, pathVars, releaseVars, feedVars, loopVars>>

\* await self.repository.create(...); return commit_sha.
GetCommitSha_Create(c) ==
    /\ ccall[c].pc = "create"
    /\ LET out == CommitCacheCreate(c, ccall[c].github_url, ccall[c].timestamp,
                                    ccall[c].commit_sha) IN
       /\ commit_cache' = out.rows
       /\ ccall' = [ccall EXCEPT ![c] =
            [@ EXCEPT !.pc = IF out.ok THEN "done" ELSE "failed",
                      !.error = IF out.ok THEN None ELSE "IntegrityError"]]
    /\ UNCHANGED <<resolveVars, grepVars, toolVars, readVars, globVars, countVars, archiveVars, selectVars, extractVars, keyVars, regexVars, contentVars, outputVars, binaryVars, rankVars, cacheVars, pathVars, releaseVars, feedVars, loopVars>>

NextCommit ==
    \E c \in CommitCalls :
        \/ \E url \in GithubUrls, ts \in Timestamps : GetCommitSha_Retrieve(c, url, ts)
        \/ \E response \in UpstreamResponses : GetCommitSha_Query(c, response)
        \/ GetCommitSha_Create(c)

(***************************************************************************)
(* Source resolver: mcp_server.py _resolve_source_code, _find_github_repos *)
(***************************************************************************)

\* Bounds of the resolver model.
NumResolveCalls == 2
MaxScore == 1

ResolveCalls == 1..NumResolveCalls
Scores == 0..MaxScore
RepoA == "https://github.com/a/b"
RepoB == "https://github.com/c/d"

\* What extract_github_candidates yields for the package's metadata
\* (description, project_urls, home_page): the metadata of a package never
\* changes in this model, so it is kept as the candidate list it yields.
CandidateLists == {<<>>, <<RepoA>>, <<RepoA, RepoB>>}

SeqToSet(q) == {q[i] : i \in 1..Len(q)}

\* list.sort(key=score, reverse=True): stable, descending.  x goes after every
\* element whose score is at least its own.
RECURSIVE InsertDesc(_, _)
InsertDesc(sorted, x) ==
    IF sorted = <<>> THEN <<x>>
    ELSE IF sorted[1].score >= x.score
    THEN <<sorted[1]>> \o InsertDesc(Tail(sorted), x)
    ELSE <<x>> \o sorted

RECURSIVE SortDesc(_)
SortDesc(q) ==
    IF q = <<>> THEN <<>>
    ELSE InsertDesc(SortDesc(SubSeq(q, 1, Len(q) - 1)), q[Len(q)])

\* get_readmes_for_repos: the candidates that have a README, in candidate order.
RECURSIVE ReposWithReadmes(_, _)
ReposWithReadmes(candidates, have) ==
    IF candidates = <<>> THEN <<>>
    ELSE (IF candidates[1] \in have THEN <<candidates[1]>> ELSE <<>>)
            \o ReposWithReadmes(Tail(candidates), have)

\* _find_github_repos once the READMEs (have) and the similarity of each README
\* to the description (score) are known.
FindGithubRepos(candidates, have, score) ==
    IF candidates = <<>> THEN <<>>
    ELSE LET with == ReposWithReadmes(candidates, have) IN
         SortDesc([i \in 1..Len(with) |-> [url |-> with[i], score |-> score[with[i]]]])

\* The check the lookup route makes instead (routes/v1/lookup/router.py:66).
AlreadyChecked_BySourceCode(p) == p.source_code # None

\* if package.status == "processed"
AlreadyChecked(p) == p.status = "processed"

\* PackageUpdate(...).model_dump(exclude_unset=True) applied by
\* PackageRepository.update: only the fields that were set are assigned.
PackageRepositoryUpdate(row, data) ==
    [f \in DOMAIN row |-> IF f \in DOMAIN data THEN data[f] ELSE row[f]]

IdleResolveCall ==
    [pc |-> "idle", scored_repos |-> <<>>, result |-> None, error |-> None,
     extracted |-> FALSE, readmes |-> FALSE, embedded |-> FALSE, updated |-> FALSE]

IdleResolveVars ==
    /\ package = [status |-> "pending", source_code |-> None, candidates |-> <<>>]
    /\ rcall = [c \in ResolveCalls |-> IdleResolveCall]

\* A package as the ingestion path registers it: not yet processed, no
\* source_code.
InitResolveVars ==
    /\ package \in [status : {"pending"}, source_code : {None},
                    candidates : CandidateLists]
    /\ rcall = [c \in ResolveCalls |-> IdleResolveCall]

\* package = await retrieve_by_ecosystem_and_name(...); a processed package
\* returns its source_code at once.
ResolveSourceCode_Retrieve(c) ==
    /\ rcall[c].pc = "idle"
    /\ rcall' = [rcall EXCEPT ![c] =
            IF AlreadyChecked(package)
            THEN [@ EXCEPT !.pc = "done", !.result = package.source_code]
            ELSE [@ EXCEPT !.pc = "find"]]
    /\ UNCHANGED <<package, commitVars, grepVars, toolVars, readVars, globVars, countVars, archiveVars, selectVars, extractVars, keyVars, regexVars, contentVars, outputVars, binaryVars, rankVars, cacheVars, pathVars, releaseVars, feedVars, loopVars>>

\* scored_repos = await _find_github_repos(...): extraction, then (only when
\* there are candidates) the README fetches and the embeddings.
ResolveSourceCode_Find(c, have, score) ==
    /\ rcall[c].pc = "find"
    /\ rcall' = [rcall EXCEPT ![c] =
            [@ EXCEPT !.pc = "update",
                      !.extracted = TRUE,
                      !.readmes = package.candidates # <<>>,
                      !.embedded = package.candidates # <<>>,
                      !.scored_repos = FindGithubRepos(package.candidates, have, score)]]
    /\ UNCHANGED <<package, commitVars, grepVars, toolVars, readVars, globVars, countVars, archiveVars, selectVars, extractVars, keyVars, regexVars, contentVars, outputVars, binaryVars, rankVars, cacheVars, pathVars, releaseVars, feedVars, loopVars>>

\* A README fetch or an embedding request answers with an HTTP error:
\* raise_for_status raises out of _find_github_repos.
ResolveSourceCode_FindFails(c) ==
    /\ rcall[c].pc = "find"
    /\ package.candidates # <<>>
    /\ rcall' = [rcall EXCEPT ![c] =
            [@ EXCEPT !.pc = "failed", !.error = "ClientResponseError",
                      !.extracted = TRUE, !.readmes = TRUE]]
    /\ UNCHANGED <<package, commitVars, grepVars, toolVars, readVars, globVars, countVars, archiveVars, selectVars, extractVars, keyVars, regexVars, contentVars, outputVars, binaryVars, rankVars, cacheVars, pathVars, releaseVars, feedVars, loopVars>>

\* The two update branches: the best match is stored, or the package is only
\* marked processed.
ResolveSourceCode_Update(c) ==
    /\ rcall[c].pc = "update"
    /\ LET repos == rcall[c].scored_repos IN
       IF repos # <<>>
       THEN /\ package' = PackageRepositoryUpdate(package,
                              [source_code |-> repos[1].url, status |-> "processed"])
            /\ rcall' = [rcall EXCEPT ![c] =
                    [@ EXCEPT !.pc = "done", !.updated = TRUE, !.result = repos[1].url]]
       ELSE /\ package' = PackageRepositoryUpdate(package, [status |-> "processed"])
            /\ rcall' = [rcall EXCEPT ![c] =
                    [@ EXCEPT !.pc = "done", !.updated = TRUE, !.result = None]]
    /\ UNCHANGED <<commitVars, grepVars, toolVars, readVars, globVars, countVars, archiveVars, selectVars, extractVars, keyVars, regexVars, contentVars, outputVars, binaryVars, rankVars, cacheVars, pathVars, releaseVars, feedVars, loopVars>>

NextResolve ==
    \E c \in ResolveCalls :
        \/ ResolveSourceCode_Retrieve(c)
        \/ \E have \in SUBSET SeqToSet(package.candidates) :
             \E score \in [SeqToSet(package.candidates) -> Scores] :
                ResolveSourceCode_Find(c, have, score)
        \/ ResolveSourceCode_FindFails(c)
        \/ ResolveSourceCode_Update(c)

(***************************************************************************)
(* grep: the scan loop of mcp_server.py grep over the archive's members    *)
(***************************************************************************)

\* Bounds of the grep model.
MaxMembers == 3
MaxMatches == 2
MaxOffset == 2
MaxHeadLimit == 2

OutputModes == {"files_with_matches", "content", "count"}

\* Program constant of _is_binary.
SAMPLE_SIZE == 8192

\* A regular file of the archive that passes the path and glob filters: the
\* number of non-overlapping matches of the pattern in it, and the position of
\* its first NUL byte counted from 1 (0: the file has none).
Members ==
    [matches : 0..MaxMatches, nul : {0}]
        \cup [matches : {1}, nul : {1, SAMPLE_SIZE, SAMPLE_SIZE + 1}]

\* _is_binary(raw): b"\x00" in data[:sample_size]
is_binary(m) == m.nul # 0 /\ m.nul <= SAMPLE_SIZE

Archives == UNION {[1..n -> Members] : n \in 0..MaxMembers}

\* target = (offset + head_limit) if head_limit > 0 else 0
Target(offset, head_limit) == IF head_limit > 0 THEN offset + head_limit ELSE 0

\* if entry_count >= offset (the skip test off by one)
PastOffset_Inclusive(entry_count, offset) == entry_count >= offset

\* if entry_count > offset
PastOffset(entry_count, offset) == entry_count > offset

\* if target and entry_count >= target
ReachedTarget(target, entry_count) == target # 0 /\ entry_count >= target

\* The entry a match produces: the file's path alone, path:count, or
\* path:line:text of one match (k-th match of member i).
Entry(mode, i, k, n) ==
    IF mode = "files_with_matches" THEN [file |-> i, match |-> 0, count |-> 0]
    ELSE IF mode = "count" THEN [file |-> i, match |-> 0, count |-> n]
    ELSE [file |-> i, match |-> k, count |-> 0]

\* One pass of the body of `for m in regex.finditer(text)` and the ones after
\* it, from match k on, until the matches end or the break is taken.
RECURSIVE ScanMatches(_, _, _, _)
ScanMatches(g, i, k, n) ==
    IF k > n THEN g
    ELSE LET count == g.entry_count + 1
             kept == IF PastOffset(count, g.offset)
                     THEN Append(g.entries, Entry("content", i, k, n))
                     ELSE g.entries
             g1 == [g EXCEPT !.entry_count = count, !.entries = kept]
         IN IF ReachedTarget(Target(g.offset, g.head_limit), count)
            THEN g1
            ELSE ScanMatches(g1, i, k + 1, n)

\* The files_with_matches and count branches: one entry for a file with a match.
ScanFile(g, i, n) ==
    IF n = 0 THEN g
    ELSE LET count == g.entry_count + 1 IN
         [g EXCEPT !.entry_count = count,
                   !.entries = IF PastOffset(count, g.offset)
                               THEN Append(@, Entry(g.output_mode, i, 0, n))
                               ELSE @]

\* The body of `while (member := tar.next()) is not None` for member i.
ScanMember(g, i) ==
    LET m == g.members[i]
        g1 == IF is_binary(m) THEN g
              ELSE IF g.output_mode = "content" THEN ScanMatches(g, i, 1, m.matches)
              ELSE ScanFile(g, i, m.matches)
        stop == ~is_binary(m) /\ ReachedTarget(Target(g.offset, g.head_limit), g1.entry_count)
    IN [g1 EXCEPT !.next = i + 1, !.pc = IF stop THEN "format" ELSE "scan"]

IdleGrepVars ==
    gcall = [pc |-> "scan", output_mode |-> "files_with_matches", head_limit |-> 0,
             offset |-> 0, members |-> <<>>, next |-> 1, entry_count |-> 0,
             entries |-> <<>>, response |-> None]

\* grep after parameter validation and archive resolution, entering the loop.
InitGrepVars ==
    \E mode \in OutputModes, head_limit \in 0..MaxHeadLimit, offset \in 0..MaxOffset,
       members \in Archives :
        gcall = [pc |-> "scan", output_mode |-> mode, head_limit |-> head_limit,
                 offset |-> offset, members |-> members, next |-> 1,
                 entry_count |-> 0, entries |-> <<>>, response |-> None]

\* tar.next() yields a member: the loop body runs on it.
GrepScanMember ==
    /\ gcall.pc = "scan"
    /\ gcall.next <= Len(gcall.members)
    /\ gcall' = ScanMember(gcall, gcall.next)
    /\ UNCHANGED <<commitVars, resolveVars, toolVars, readVars, globVars, countVars, archiveVars, selectVars, extractVars, keyVars, regexVars, contentVars, outputVars, binaryVars, rankVars, cacheVars, pathVars, releaseVars, feedVars, loopVars>>

\* tar.next() yields None: the loop ends.
GrepScanEnd ==
    /\ gcall.pc = "scan"
    /\ gcall.next > Len(gcall.members)
    /\ gcall' = [gcall EXCEPT !.pc = "format"]
    /\ UNCHANGED <<commitVars, resolveVars, toolVars, readVars, globVars, countVars, archiveVars, selectVars, extractVars, keyVars, regexVars, contentVars, outputVars, binaryVars, rankVars, cacheVars, pathVars, releaseVars, feedVars, loopVars>>

\* if not entries: return "No matches found."; else the joined entries.
GrepFormat ==
    /\ gcall.pc = "format"
    /\ gcall' = [gcall EXCEPT !.pc = "done",
                              !.response = IF gcall.entries = <<>>
                                           THEN "No matches found." ELSE "entries"]
    /\ UNCHANGED <<commitVars, resolveVars, toolVars, readVars, globVars, countVars, archiveVars, selectVars, extractVars, keyVars, regexVars, contentVars, outputVars, binaryVars, rankVars, cacheVars, pathVars, releaseVars, feedVars, loopVars>>

NextGrep == GrepScanMember \/ GrepScanEnd \/ GrepFormat

(***************************************************************************)
(* Tool calls: mcp_server.py resolve_package, glob, grep, read             *)
(***************************************************************************)

Tools == {"glob", "grep", "read"}
Ecosystems == {"pypi", "npm", "cargo"}

\* What the stores and the upstream services answer during one call.
\*   access_token   get_access_token() yields a token
\*   user_found     UserService.retrieve finds the user
\*   source         _resolve_source_code: raises PackageNotFound, raises out of a
\*                  README or embedding request, or returns None or a URL
\*   release_found  retrieve_by_package yields a release
\*   commit         get_commit_sha: returns, or raises as in GetCommitSha_*
\*   fetch          the archive download: succeeds, meets an HTTP or transport
\*                  error, finds no sdist listed, or gets bytes that are not gzip
Environments ==
    [access_token : BOOLEAN,
     user_found : BOOLEAN,
     source : {"PackageNotFound", "ClientResponseError", "none", "url"},
     release_found : BOOLEAN,
     commit : {"ok", "HTTPException", "ClientResponseError", "IntegrityError"},
     fetch : {"ok", "upstream_error", "no_sdist", "not_gzip"}]

\* What the tool body meets once the archive is resolved.
\*   regex_ok     one of the two regex engines compiles the pattern
\*   results      files matched (glob) or entries kept (grep)
\*   over_chars   the joined grep entries exceed 30,000 characters
\*   file_found   the archive holds file_path (read)
\*   is_default   offset == 1 and limit == 2000 (read)
\*   over_size    the file exceeds 256KB (read)
\*   over_tokens  the formatted output is estimated above 25,000 tokens (read)
BodyInputs ==
    [regex_ok : BOOLEAN, results : {0, 1, 101}, over_chars : BOOLEAN,
     file_found : BOOLEAN, is_default : BOOLEAN, over_size : BOOLEAN,
     over_tokens : BOOLEAN]

NoTarball == [compression |-> None]

Raise(exc, msg) ==
    [exception |-> exc, message |-> msg, tarball |-> NoTarball, source_label |-> None]

Resolved(compression, label) ==
    [exception |-> None, message |-> None,
     tarball |-> [compression |-> compression], source_label |-> label]

\* get_tarball -> _fetch_tarball_sync: the archive is written with mode "w:gz".
GetTarball(env) ==
    IF env.fetch = "upstream_error"
    THEN Raise("GitProtocolError", "fetch failed")
    ELSE Resolved("gz", "Source: GitHub repository archive")

\* get_pypi_tarball: raise_for_status, the sdist lookup, gzip.decompress.
GetPypiTarball(env) ==
    IF env.fetch = "upstream_error"
    THEN Raise("ClientResponseError", "pypi request failed")
    ELSE IF env.fetch = "no_sdist"
    THEN Raise("FileNotFoundError", "No sdist found")
    ELSE IF env.fetch = "not_gzip"
    THEN Raise("BadGzipFile", "Not a gzipped file")
    ELSE Resolved("none", "Source: PyPI sdist")

\* get_npm_tarball: raise_for_status (a missing tarball is a 404 here),
\* gzip.decompress.
GetNpmTarball(env) ==
    IF env.fetch \in {"upstream_error", "no_sdist"}
    THEN Raise("ClientResponseError", "npm request failed")
    ELSE IF env.fetch = "not_gzip"
    THEN Raise("BadGzipFile", "Not a gzipped file")
    ELSE Resolved("none", "Source: npm registry tarball")

\* resolve_package: the checks and calls in the order the code makes them.
ResolvePackage(ecosystem, env) ==
    IF ecosystem \notin {"pypi", "npm"}
    THEN Raise("ValueError", "Ecosystem is not supported")
    ELSE IF ~env.access_token
    THEN Raise("ValueError", "Authentication required")
    ELSE IF ~env.user_found
    THEN Raise("HTTPException", "User not found")
    ELSE IF env.source = "PackageNotFound"
    THEN Raise("HTTPException", "Package not found")
    ELSE IF env.source = "ClientResponseError"
    THEN Raise("ClientResponseError", "README request failed")
    ELSE IF ~env.release_found
    THEN Raise("ValueError", "No releases found")
    ELSE IF env.source = "url"
    THEN IF env.commit = "HTTPException"
         THEN Raise("HTTPException", "No commits found for the given timestamp")
         ELSE IF env.commit # "ok"
         THEN Raise(env.commit, "commit resolution failed")
         ELSE GetTarball(env)
    ELSE IF ecosystem = "pypi" THEN GetPypiTarball(env)
    ELSE GetNpmTarball(env)

\* except (HTTPException, ValueError) as e: return f"Error: {e}"
Caught(exc) == exc \in {"HTTPException", "ValueError"}

\* tarfile.open(mode="r:gz") reads gzip only; mode="r:" reads uncompressed only.
TarOpens(mode, tarball) ==
    IF mode = "r:gz" THEN tarball.compression = "gz"
    ELSE tarball.compression = "none"

\* _open_tarball of github_source.py, used by get_file_tree and get_file_content.
OpenTarballMode == "r:gz"

\* The mode grep passes to tarfile.open.
GrepOpenMode == "r:"

Returned(t, response) ==
    [t EXCEPT !.pc = "returned", !.response = response]

Raised(t, exc) ==
    [t EXCEPT !.pc = "raised", !.exception = exc]

\* glob after resolve_package.
GlobBody(t, b) ==
    IF ~TarOpens(OpenTarballMode, t.tarball) THEN Raised(t, "ReadError")
    ELSE IF b.results = 0 THEN Returned(t, <<"No files matched the pattern.">>)
    ELSE IF b.results > 100
    THEN Returned(t, <<"matches", "... and N more files", t.source_label>>)
    ELSE Returned(t, <<"matches", t.source_label>>)

\* grep after resolve_package.
GrepBody(t, b) ==
    IF ~b.regex_ok THEN Returned(t, <<"Error: ", "Invalid regex pattern">>)
    ELSE IF ~TarOpens(GrepOpenMode, t.tarball) THEN Raised(t, "ReadError")
    ELSE IF b.results = 0 THEN Returned(t, <<"No matches found.">>)
    ELSE IF b.over_chars
    THEN Returned(t, <<"entries", "... output truncated at 30,000 characters.",
                       t.source_label>>)
    ELSE Returned(t, <<"entries", t.source_label>>)

\* read after resolve_package.
ReadBody(t, b) ==
    IF ~TarOpens(OpenTarballMode, t.tarball) THEN Raised(t, "ReadError")
    ELSE IF ~b.file_found
    THEN [Returned(t, <<"Error: ", "File not found">>) EXCEPT !.exception = "FileNotFoundError"]
    ELSE IF b.is_default /\ b.over_size
    THEN Returned(t, <<"File content exceeds maximum allowed size (256KB).">>)
    ELSE IF b.over_tokens
    THEN Returned(t, <<"File content exceeds maximum allowed tokens.">>)
    ELSE Returned(t, <<"numbered lines", "[Lines X-Y of Z total]", t.source_label>>)

IdleToolVars ==
    tcall = [pc |-> "idle", tool |-> None, ecosystem |-> None, exception |-> None,
             tarball |-> NoTarball, source_label |-> None, response |-> <<>>]

\* The tool is called.  grep validates output_mode before anything else.
ToolInvoke(tool, ecosystem, output_mode_ok) ==
    /\ tcall.pc = "idle"
    /\ LET t == [tcall EXCEPT !.tool = tool, !.ecosystem = ecosystem] IN
       tcall' = IF tool = "grep" /\ ~output_mode_ok
                THEN Returned(t, <<"Error: ", "output_mode must be one of">>)
                ELSE [t EXCEPT !.pc = "resolve"]
    /\ UNCHANGED <<commitVars, resolveVars, grepVars, readVars, globVars, countVars, archiveVars, selectVars, extractVars, keyVars, regexVars, contentVars, outputVars, binaryVars, rankVars, cacheVars, pathVars, releaseVars, feedVars, loopVars>>

\* try: tarball_bytes, _, source_label = await resolve_package(...)
ToolResolve(env) ==
    /\ tcall.pc = "resolve"
    /\ LET r == ResolvePackage(tcall.ecosystem, env) IN
       tcall' = IF r.exception = None
                THEN [tcall EXCEPT !.pc = "body", !.tarball = r.tarball,
                                   !.source_label = r.source_label]
                ELSE IF Caught(r.exception)
                THEN [Returned(tcall, <<"Error: ", r.message>>)
                        EXCEPT !.exception = r.exception]
                ELSE Raised(tcall, r.exception)
    /\ UNCHANGED <<commitVars, resolveVars, grepVars, readVars, globVars, countVars, archiveVars, selectVars, extractVars, keyVars, regexVars, contentVars, outputVars, binaryVars, rankVars, cacheVars, pathVars, releaseVars, feedVars, loopVars>>

\* The rest of the tool function.
ToolBody(b) ==
    /\ tcall.pc = "body"
    /\ tcall' = IF tcall.tool = "glob" THEN GlobBody(tcall, b)
                ELSE IF tcall.tool = "grep" THEN GrepBody(tcall, b)
                ELSE ReadBody(tcall, b)
    /\ UNCHANGED <<commitVars, resolveVars, grepVars, readVars, globVars, countVars, archiveVars, selectVars, extractVars, keyVars, regexVars, contentVars, outputVars, binaryVars, rankVars, cacheVars, pathVars, releaseVars, feedVars, loopVars>>

NextTool ==
    \/ \E tool \in Tools, ecosystem \in Ecosystems, output_mode_ok \in BOOLEAN :
            ToolInvoke(tool, ecosystem, output_mode_ok)
    \/ \E env \in Environments : ToolResolve(env)
    \/ \E b \in BodyInputs : ToolBody(b)

(***************************************************************************)
(* read: mcp_server.py read, from the decoded file content to the text     *)
(***************************************************************************)

\* Bounds of the files and parameters drawn for read.
MaxLines == 3
MaxReadOffset == 4
MaxLimit == 3

\* Program constants of read.
MAX_FILE_SIZE == 262144
DEFAULT_LIMIT == 2000
MAX_LINE_CHARS == 2000
MAX_TOKENS == 25000

Min(a, b) == IF a < b THEN a ELSE b
Max(a, b) == IF a > b THEN a ELSE b

\* A line is its number of characters; every character is one byte of UTF-8.
\* A content is its lines, joined by "\n", with or without a final "\n".
LineLens == {0, 1, MAX_LINE_CHARS + 1}
Uniform(n, len, nl) == [lines |-> [i \in 1..n |-> len], final_newline |-> nl]
SmallContents ==
    {[lines |-> l, final_newline |-> nl] :
        l \in UNION {[1..n -> LineLens] : n \in 0..MaxLines}, nl \in BOOLEAN}
        \ {[lines |-> <<>>, final_newline |-> TRUE]}
\* 50 lines whose default output is 100,003 characters when the last line
\* has 1978 characters.
TokenBoundary(last) ==
    [lines |-> [i \in 1..50 |-> IF i = 50 THEN last ELSE 1991], final_newline |-> TRUE]
\* 2001 empty lines; 100KB in 100 lines; 256KB exactly; 300KB; the two files
\* on either side of the token limit.
LargeContents ==
    {Uniform(DEFAULT_LIMIT + 1, 0, TRUE), Uniform(100, 1023, TRUE),
     Uniform(256, 1023, TRUE), Uniform(300, 1023, TRUE),
     TokenBoundary(1978), TokenBoundary(1979)}
Contents == SmallContents \cup LargeContents
ReadOffsets == (0 - 1)..MaxReadOffset
ReadLimits == ((0 - 1)..MaxLimit) \cup {DEFAULT_LIMIT}

RECURSIVE SumRange(_, _, _)
SumRange(f, lo, hi) ==
    IF lo > hi THEN 0
    ELSE IF lo = hi THEN f[lo]
    ELSE LET mid == (lo + hi) \div 2 IN SumRange(f, lo, mid) + SumRange(f, mid + 1, hi)

\* len(content.encode("utf-8"))
ContentBytes(content) ==
    LET n == Len(content.lines) IN
    SumRange(content.lines, 1, n) + Max(n - 1, 0)
        + (IF content.final_newline THEN 1 ELSE 0)

\* content.splitlines()
Splitlines(content) == content.lines

\* [line[:2000] for line in lines]
TruncateLines(lines) == [i \in 1..Len(lines) |-> Min(lines[i], MAX_LINE_CHARS)]

\* s[a:b] of Python: a negative index counts from the end, both are clamped.
PySlice(s, a, b) ==
    LET n == Len(s)
        Norm(i) == IF i < 0 THEN Max(n + i, 0) ELSE Min(i, n)
        lo == Norm(a)
        hi == Norm(b)
    IN  [k \in 1..Max(hi - lo, 0) |-> s[lo + k]]

\* len(str(i))
RECURSIVE Digits(_)
Digits(n) == IF n < 10 THEN 1 ELSE 1 + Digits(n \div 10)
StrLen(i) == IF i < 0 THEN 1 + Digits(0 - i) ELSE Digits(i)

\* for i, line in enumerate(selected, start=offset): f"     {i}\t{line}"
Numbered(selected, offset) ==
    [k \in 1..Len(selected) |->
        [number |-> offset + k - 1, line |-> selected[k]]]

\* f"\n\n[Lines {offset}-{offset + num_lines - 1} of {total_lines} total]"
Footer(offset, num_lines, total_lines) ==
    [first |-> offset, last |-> offset + num_lines - 1, total |-> total_lines]
NoFooter == [first |-> 0, last |-> 0, total |-> 0]

\* len(output) once the footer is appended
OutputChars(numbered, footer) ==
    LET n == Len(numbered)
        chars == [k \in 1..n |-> 5 + StrLen(numbered[k].number) + 1 + numbered[k].line]
    IN  SumRange(chars, 1, n) + Max(n - 1, 0)
        + 2 + 7 + StrLen(footer.first) + 1 + StrLen(footer.last) + 4
        + StrLen(footer.total) + 7

\* is_default = offset == 1 and limit == 2000
IsDefault(offset, limit) == offset = 1 /\ limit = DEFAULT_LIMIT

\* if is_default and content_bytes >= MAX_FILE_SIZE
SizeGuard_Inclusive(content, offset, limit) ==
    IsDefault(offset, limit) /\ ContentBytes(content) >= MAX_FILE_SIZE
\* if is_default and content_bytes > MAX_FILE_SIZE
SizeGuard(content, offset, limit) ==
    IsDefault(offset, limit) /\ ContentBytes(content) > MAX_FILE_SIZE

\* Variant: the estimate taken before the footer is appended.
TokenGuard_BeforeFooter(numbered, footer) ==
    (OutputChars(numbered, footer) - (22 + StrLen(footer.first) + StrLen(footer.last)
                                         + StrLen(footer.total))) \div 4 > MAX_TOKENS
\* estimated_tokens = len(output) // 4;  if estimated_tokens > MAX_TOKENS
TokenGuard(numbered, footer) == OutputChars(numbered, footer) \div 4 > MAX_TOKENS

ReadResponse(kind, numbered, footer) ==
    [kind |-> kind, numbered |-> numbered, footer |-> footer]
NoReadResponse == ReadResponse("none", <<>>, NoFooter)

\* The lines of read after the size guard.
ReadFormatted(content, offset, limit) ==
    LET lines == TruncateLines(Splitlines(content))
        start == Max(0, offset - 1)
        selected == PySlice(lines, start, start + limit)
        numbered == Numbered(selected, offset)
        footer == Footer(offset, Len(selected), Len(lines))
    IN  IF TokenGuard(numbered, footer)
        THEN ReadResponse("token_guard", <<>>, NoFooter)
        ELSE ReadResponse("content", numbered, footer)

IdleReadVars ==
    readcall = [pc |-> "idle", content |-> Uniform(0, 0, FALSE), offset |-> 1,
                limit |-> DEFAULT_LIMIT, response |-> NoReadResponse]

InitReadVars ==
    readcall \in [pc : {"size_guard"}, content : Contents, offset : ReadOffsets,
                  limit : ReadLimits, response : {NoReadResponse}]

\* The size guard refuses, or lets the call go on.
ReadSizeGuard ==
    /\ readcall.pc = "size_guard"
    /\ readcall' =
        IF SizeGuard(readcall.content, readcall.offset, readcall.limit)
        THEN [readcall EXCEPT !.pc = "done",
                              !.response = ReadResponse("size_guard", <<>>, NoFooter)]
        ELSE [readcall EXCEPT !.pc = "format"]
    /\ UNCHANGED <<commitVars, resolveVars, grepVars, toolVars, globVars, countVars, archiveVars, selectVars, extractVars, keyVars, regexVars, contentVars, outputVars, binaryVars, rankVars, cacheVars, pathVars, releaseVars, feedVars, loopVars>>

\* Slice, number, footer, token guard, source label.
ReadFormat ==
    /\ readcall.pc = "format"
    /\ readcall' =
        [readcall EXCEPT !.pc = "done",
            !.response = ReadFormatted(readcall.content, readcall.offset, readcall.limit)]
    /\ UNCHANGED <<commitVars, resolveVars, grepVars, toolVars, globVars, countVars, archiveVars, selectVars, extractVars, keyVars, regexVars, contentVars, outputVars, binaryVars, rankVars, cacheVars, pathVars, releaseVars, feedVars, loopVars>>

NextRead == ReadSizeGuard \/ ReadFormat

(***************************************************************************)
(* Archive index: github_source.py get_file_tree, get_file_content         *)
(***************************************************************************)

\* Bound of the archives drawn: members of an archive besides the large ones.
MaxTarMembers == 3

\* A text is the sequence of its characters.
Slash == <<"/">>
Join(a, b) == a \o Slash \o b
Root == <<"r">>
Src == <<"s", "r", "c">>
SrcFoo == <<"s", "r", "c", "f", "o", "o">>
Lib == <<"l", "i", "b">>
APy == <<"a", ".", "p", "y">>
BTxt == <<"b", ".", "t", "x", "t">>
CPy == <<"c", ".", "p", "y">>
X == <<"x">>
DotPy == <<".", "p", "y">>

\* Characters in code point order, as str comparison orders them.
DigitChars == <<"0", "1", "2", "3", "4", "5", "6", "7", "8", "9">>
CodePointOrder ==
    <<" ", "#", "-", ".", "/">> \o DigitChars
        \o <<":", "=", "?", "@", "_">>
        \o <<"a", "b", "c", "d", "e", "f", "g", "h", "i", "j", "k", "l", "m",
           "n", "o", "p", "q", "r", "s", "t", "u", "v", "w", "x", "y", "z">>
CodePoint ==
    [c \in {CodePointOrder[i] : i \in 1..Len(CodePointOrder)} |->
        CHOOSE i \in 1..Len(CodePointOrder) : CodePointOrder[i] = c]
Ord(c) == CodePoint[c]

\* a < b of str
RECURSIVE StrLess(_, _)
StrLess(a, b) ==
    IF b = <<>> THEN FALSE
    ELSE IF a = <<>> THEN TRUE
    ELSE IF Ord(Head(a)) # Ord(Head(b)) THEN Ord(Head(a)) < Ord(Head(b))
    ELSE StrLess(Tail(a), Tail(b))

\* str(n)
RECURSIVE Dec(_)
Dec(n) == IF n < 10 THEN <<DigitChars[n + 1]>>
          ELSE Dec(n \div 10) \o <<DigitChars[(n % 10) + 1]>>

\* s.startswith(p)
StartsWith(s, p) == Len(s) >= Len(p) /\ SubSeq(s, 1, Len(p)) = p

\* s.strip("/")
RECURSIVE StripSlashes(_)
StripSlashes(s) ==
    IF s = <<>> THEN s
    ELSE IF Head(s) = "/" THEN StripSlashes(Tail(s))
    ELSE IF s[Len(s)] = "/" THEN StripSlashes(SubSeq(s, 1, Len(s) - 1))
    ELSE s

\* s.split("/", 1): the text before the first "/" and the text after it, or
\* the whole text alone when it holds no "/".
SplitOnce(s) ==
    LET slashes == {i \in 1..Len(s) : s[i] = "/"} IN
    IF slashes = {} THEN <<s>>
    ELSE LET i == CHOOSE k \in slashes : \A j \in slashes : k <= j IN
         <<SubSeq(s, 1, i - 1), SubSeq(s, i + 1, Len(s))>>

\* The members a tar archive can hold, in the order tarfile yields them.
TarFile(path) == [name |-> Join(Root, path), type |-> "file"]
MemberPool ==
    <<[name |-> X, type |-> "file"],
      TarFile(Join(SrcFoo, X)), TarFile(Join(Src, BTxt)), TarFile(Join(Src, APy)),
      [name |-> Join(Root, Join(Src, APy)), type |-> "symlink"],
      TarFile(Src), TarFile(Join(Lib, CPy)),
      [name |-> Join(Root, Lib), type |-> "dir"],
      TarFile(APy),
      [name |-> Root, type |-> "dir"]>>

RECURSIVE Pick(_, _)
Pick(pool, chosen) ==
    IF pool = <<>> THEN <<>>
    ELSE (IF Len(pool) \in chosen THEN <<Head(pool)>> ELSE <<>>)
            \o Pick(Tail(pool), chosen)
SmallArchives ==
    {Pick(MemberPool, chosen) :
        chosen \in {c \in SUBSET (1..Len(MemberPool)) : Cardinality(c) <= MaxTarMembers}}
\* n regular files r/n<i>.py, the highest number first.
ManyFiles(n) == [k \in 1..n |-> TarFile(<<"n">> \o Dec(n + 1 - k) \o DotPy)]

\* member.isfile()
IsFile(member) == member.type = "file"

\* paths.sort()
SortPaths(paths) == SortSeq(paths, StrLess)

\* get_file_tree before paths.sort()
TreePaths(members) ==
    LET Keep(member) == IsFile(member) /\ Len(SplitOnce(member.name)) = 2
        kept == SelectSeq(members, Keep)
    IN  [i \in 1..Len(kept) |-> SplitOnce(kept[i].name)[2]]

get_file_tree(members) == SortPaths(TreePaths(members))

\* get_file_content comparing the member's whole name with file_path
get_file_content_FullName(members, file_path) ==
    LET found == {i \in 1..Len(members) :
                    IsFile(members[i]) /\ members[i].name = file_path}
    IN  IF found = {}
        THEN [exception |-> "FileNotFoundError", member |-> 0]
        ELSE [exception |-> None,
              member |-> CHOOSE i \in found : \A j \in found : i <= j]

\* get_file_content: the first regular member whose stripped name is
\* file_path is extracted; without one, FileNotFoundError.
get_file_content(members, file_path) ==
    LET found == {i \in 1..Len(members) :
                    /\ IsFile(members[i])
                    /\ Len(SplitOnce(members[i].name)) = 2
                    /\ SplitOnce(members[i].name)[2] = file_path}
    IN  IF found = {}
        THEN [exception |-> "FileNotFoundError", member |-> 0]
        ELSE [exception |-> None,
              member |-> CHOOSE i \in found : \A j \in found : i <= j]

(***************************************************************************)
(* glob: mcp_server.py glob, from get_file_tree to the returned text       *)
(***************************************************************************)

\* Program constant of glob.
MAX_RESULTS == 100

LargeArchives == {ManyFiles(n) : n \in MAX_RESULTS..(MAX_RESULTS + 2)}
GlobPatterns ==
    {<<"*", "*", "/", "*", ".", "p", "y">>, <<"*", ".", "p", "y">>,
     <<"s", "r", "c", "/", "*">>, <<"*", "*">>, <<"?", ".", "p", "y">>}
\* path: None, or a text
GlobPaths == {<<>>, Src, Src \o Slash, Lib, Slash, Join(Src, APy)}

\* re.split("/", pat)
RECURSIVE SplitAll(_)
SplitAll(s) ==
    LET parts == SplitOnce(s) IN
    IF Len(parts) = 1 THEN parts ELSE <<parts[1]>> \o SplitAll(parts[2])

\* fnmatch._translate(part, "[^/]*", "[^/]"): one atom per character
FnmatchAtoms(part) ==
    [i \in 1..Len(part) |->
        IF part[i] = "*" THEN [t |-> "not_sep*", c |-> ""]
        ELSE IF part[i] = "?" THEN [t |-> "not_sep", c |-> ""]
        ELSE [t |-> "lit", c |-> part[i]]]

\* glob.translate(pattern, recursive=True, include_hidden=True): the atoms of
\* the regular expression, which ends in \Z.
RECURSIVE TranslateParts(_, _)
TranslateParts(parts, idx) ==
    IF idx > Len(parts) THEN <<>>
    ELSE LET part == parts[idx]
             last == idx = Len(parts)
             here ==
                IF part = <<"*">>
                THEN IF last THEN <<[t |-> "not_sep+", c |-> ""]>>
                     ELSE <<[t |-> "not_sep+", c |-> ""], [t |-> "sep", c |-> ""]>>
                ELSE IF part = <<"*", "*">>
                THEN IF last THEN <<[t |-> "any*", c |-> ""]>>
                     ELSE IF parts[idx + 1] # <<"*", "*">>
                     THEN <<[t |-> "any_segments", c |-> ""]>>
                     ELSE <<>>
                ELSE FnmatchAtoms(part)
                        \o (IF last THEN <<>> ELSE <<[t |-> "sep", c |-> ""]>>)
         IN  here \o TranslateParts(parts, idx + 1)
GlobTranslate(pattern) == TranslateParts(SplitAll(pattern), 1)

\* regex.match(f): atoms[i..] match s[j..] up to the end of s
RECURSIVE AtomsMatch(_, _, _, _)
AtomsMatch(atoms, i, s, j) ==
    IF i > Len(atoms) THEN j = Len(s) + 1
    ELSE LET a == atoms[i]
             NoSep(from, to) == \A k \in from..to : s[k] # "/"
         IN  CASE a.t = "lit" -> j <= Len(s) /\ s[j] = a.c /\ AtomsMatch(atoms, i + 1, s, j + 1)
               [] a.t = "sep" -> j <= Len(s) /\ s[j] = "/" /\ AtomsMatch(atoms, i + 1, s, j + 1)
               [] a.t = "not_sep" -> j <= Len(s) /\ s[j] # "/" /\ AtomsMatch(atoms, i + 1, s, j + 1)
               [] a.t = "not_sep*" ->
                    \E k \in j..(Len(s) + 1) : NoSep(j, k - 1) /\ AtomsMatch(atoms, i + 1, s, k)
               [] a.t = "not_sep+" ->
                    \E k \in (j + 1)..(Len(s) + 1) : NoSep(j, k - 1) /\ AtomsMatch(atoms, i + 1, s, k)
               [] a.t = "any_segments" ->
                    \/ AtomsMatch(atoms, i + 1, s, j)
                    \/ \E k \in (j + 1)..Len(s) : s[k] = "/" /\ AtomsMatch(atoms, i + 1, s, k + 1)
               [] a.t = "any*" ->
                    \E k \in j..(Len(s) + 1) : AtomsMatch(atoms, i + 1, s, k)
GlobMatch(pattern, f) == AtomsMatch(GlobTranslate(pattern), 1, f, 1)

\* f.startswith(path) or f == path
InScope_NoSlash(f, path) == StartsWith(f, path) \/ f = path
\* f.startswith(path + "/") or f == path
InScope(f, path) == StartsWith(f, path \o Slash) \/ f = path

\* if path: path = path.strip("/"); files = [f for f in files if ...]
ScopeFiles(files, path) ==
    IF path = <<>> THEN files
    ELSE LET stripped == StripSlashes(path)
             Keep(f) == InScope(f, stripped)
         IN  SelectSeq(files, Keep)

GlobResponse(kind, listed, more, total) ==
    [kind |-> kind, listed |-> listed, more |-> more, total |-> total]
NoGlobResponse == GlobResponse("none", <<>>, 0, 0)

\* matches[:MAX_RESULTS + 1]
GlobListed_OffByOne(matches) == SubSeq(matches, 1, Min(Len(matches), MAX_RESULTS + 1))
\* matches[:MAX_RESULTS]
GlobListed(matches) == SubSeq(matches, 1, Min(Len(matches), MAX_RESULTS))

\* matches = [f for f in files if regex.match(f)] and the text built from it
GlobFormatted(files, pattern) ==
    LET Keep(f) == GlobMatch(pattern, f)
        matches == SelectSeq(files, Keep)
        total == Len(matches)
    IN  IF matches = <<>>
        THEN GlobResponse("no_match", <<>>, 0, 0)
        ELSE GlobResponse("listing", GlobListed(matches),
                          IF total > MAX_RESULTS THEN total - MAX_RESULTS ELSE 0, total)

IdleGlobVars ==
    globcall = [pc |-> "idle", members |-> <<>>, pattern |-> <<>>, path |-> <<>>,
                files |-> <<>>, response |-> NoGlobResponse]

InitGlobVars ==
    \/ globcall \in [pc : {"tree"}, members : SmallArchives, pattern : GlobPatterns,
                     path : GlobPaths, files : {<<>>}, response : {NoGlobResponse}]
    \/ globcall \in [pc : {"tree"}, members : LargeArchives,
                     pattern : {<<"*", "*", "/", "*", ".", "p", "y">>, <<"*">>},
                     path : {<<>>}, files : {<<>>}, response : {NoGlobResponse}]

\* files = get_file_tree(tarball_bytes), narrowed to path
GlobFileTree ==
    /\ globcall.pc = "tree"
    /\ globcall' = [globcall EXCEPT !.pc = "match",
                        !.files = ScopeFiles(get_file_tree(globcall.members), globcall.path)]
    /\ UNCHANGED <<commitVars, resolveVars, grepVars, toolVars, readVars, countVars, archiveVars, selectVars, extractVars, keyVars, regexVars, contentVars, outputVars, binaryVars, rankVars, cacheVars, pathVars, releaseVars, feedVars, loopVars>>

\* The pattern is applied and the text returned.
GlobFormat ==
    /\ globcall.pc = "match"
    /\ globcall' = [globcall EXCEPT !.pc = "done",
                        !.response = GlobFormatted(globcall.files, globcall.pattern)]
    /\ UNCHANGED <<commitVars, resolveVars, grepVars, toolVars, readVars, countVars, archiveVars, selectVars, extractVars, keyVars, regexVars, contentVars, outputVars, binaryVars, rankVars, cacheVars, pathVars, releaseVars, feedVars, loopVars>>

NextGlob == GlobFileTree \/ GlobFormat

(***************************************************************************)
(* grep, count mode: the entry mcp_server.py grep builds for one file      *)
(***************************************************************************)

\* Bound of the texts drawn for count mode.
MaxTextLen == 4

\* The decoded text of a file and the literal patterns searched in it.
TextChars == {"o", "x", "\n"}
Texts == UNION {[1..n -> TextChars] : n \in 0..MaxTextLen}
CountPatterns == {<<"o">>, <<"o", "o">>}

\* The pattern matches text at position i.
MatchAt(pattern, text, i) ==
    /\ i + Len(pattern) - 1 <= Len(text)
    /\ SubSeq(text, i, i + Len(pattern) - 1) = pattern

\* A scan that resumes one character after the start of a match.
RECURSIVE FindAll_Overlapping(_, _, _)
FindAll_Overlapping(pattern, text, from) ==
    IF from > Len(text) THEN <<>>
    ELSE IF MatchAt(pattern, text, from)
    THEN <<from>> \o FindAll_Overlapping(pattern, text, from + 1)
    ELSE FindAll_Overlapping(pattern, text, from + 1)

\* regex.findall(text): the matches found from left to right, each scan
\* resuming where the match before it ended.
RECURSIVE FindAll(_, _, _)
FindAll(pattern, text, from) ==
    IF from > Len(text) THEN <<>>
    ELSE IF MatchAt(pattern, text, from)
    THEN <<from>> \o FindAll(pattern, text, from + Len(pattern))
    ELSE FindAll(pattern, text, from + 1)

\* matches = regex.findall(text); if matches: f"{file_path}:{len(matches)}"
CountEntries(pattern, text) ==
    LET matches == FindAll(pattern, text, 1) IN
    IF matches # <<>> THEN <<[file |-> 1, count |-> Len(matches)]>> ELSE <<>>

IdleCountVars ==
    countcall = [pc |-> "idle", pattern |-> <<>>, text |-> <<>>, entries |-> <<>>]

InitCountVars ==
    countcall \in [pc : {"file"}, pattern : CountPatterns, text : Texts,
                   entries : {<<>>}]

\* The count branch of the loop body runs on the file.
GrepCountFile ==
    /\ countcall.pc = "file"
    /\ countcall' = [countcall EXCEPT !.pc = "done",
                        !.entries = CountEntries(countcall.pattern, countcall.text)]
    /\ UNCHANGED <<commitVars, resolveVars, grepVars, toolVars, readVars, globVars, archiveVars, selectVars, extractVars, keyVars, regexVars, contentVars, outputVars, binaryVars, rankVars, cacheVars, pathVars, releaseVars, feedVars, loopVars>>

NextCount == GrepCountFile

(***************************************************************************)
(* Archive index round trip: get_file_tree, then get_file_content          *)
(***************************************************************************)

NotRead == [exception |-> None, member |-> 0]

IdleArchiveVars ==
    acall = [pc |-> "idle", compression |-> "gz", members |-> <<>>, tree |-> <<>>,
             file_path |-> <<>>, content |-> NotRead]

InitArchiveVars ==
    acall \in [pc : {"archive"}, compression : {"gz", "none"}, members : SmallArchives,
               tree : {<<>>}, file_path : {<<>>}, content : {NotRead}]

\* get_file_tree(tarball_bytes): _open_tarball raises tarfile.ReadError on
\* bytes that are not gzip.
ArchiveListFiles ==
    /\ acall.pc = "archive"
    /\ acall' = IF TarOpens(OpenTarballMode, [compression |-> acall.compression])
                THEN [acall EXCEPT !.pc = "listed", !.tree = get_file_tree(acall.members)]
                ELSE [acall EXCEPT !.pc = "raised",
                                   !.content = [exception |-> "ReadError", member |-> 0]]
    /\ UNCHANGED <<commitVars, resolveVars, grepVars, toolVars, readVars, globVars, countVars, selectVars, extractVars, keyVars, regexVars, contentVars, outputVars, binaryVars, rankVars, cacheVars, pathVars, releaseVars, feedVars, loopVars>>

\* get_file_content(tarball_bytes, file_path) for a path of the listing.
ArchiveReadFile(k) ==
    /\ acall.pc = "listed"
    /\ k \in 1..Len(acall.tree)
    /\ acall' = [acall EXCEPT !.pc = "read", !.file_path = acall.tree[k],
                              !.content = get_file_content(acall.members, acall.tree[k])]
    /\ UNCHANGED <<commitVars, resolveVars, grepVars, toolVars, readVars, globVars, countVars, selectVars, extractVars, keyVars, regexVars, contentVars, outputVars, binaryVars, rankVars, cacheVars, pathVars, releaseVars, feedVars, loopVars>>

NextArchive ==
    \/ ArchiveListFiles
    \/ \E k \in 1..MaxTarMembers : ArchiveReadFile(k)

(***************************************************************************)
(* Release selection: mcp_server.py resolve_package and                    *)
(* ReleaseRepository.retrieve_by_package                                   *)
(***************************************************************************)

\* Bound of the release timestamps.
MaxSeen == 2

\* Rows of table releases for the one package resolved (db/models.py
\* DBRelease): unique_release allows one row per version.
Versions == {"1.0", "2.0"}
ReleaseRows ==
    {r \in [version : Versions, first_seen : 1..MaxSeen, last_seen : 1..MaxSeen] :
        r.first_seen <= r.last_seen}
ReleaseTables ==
    {t \in SUBSET ReleaseRows : \A r1, r2 \in t : r1.version = r2.version => r1 = r2}
\* version: None, a stored version, or one the table may not hold
RequestedVersions == Versions \cup {None, "3.0"}
NoRelease == [version |-> None, first_seen |-> 0, last_seen |-> 0]

\* retrieve_by_package(..., limit=1): the rows of the package ordered by
\* first_seen descending, cut to one; rows of equal first_seen come in either
\* order.  The set of rows the query can return as releases[0].
\* resolve_package passes version; the query has no condition on it.
retrieve_by_package(rows, version) ==
    {r \in rows : \A o \in rows : o.first_seen <= r.first_seen}

IdleSelectVars ==
    selcall = [pc |-> "idle", rows |-> {}, version |-> None, release |-> NoRelease,
               exception |-> None, timestamp |-> 0, release_version |-> None]

InitSelectVars ==
    selcall \in [pc : {"releases"}, rows : ReleaseTables, version : RequestedVersions,
                 release : {NoRelease}, exception : {None}, timestamp : {0},
                 release_version : {None}]

\* releases = await release_service.retrieve_by_package(...); release = releases[0]
SelectRelease(release) ==
    /\ selcall.pc = "releases"
    /\ release \in retrieve_by_package(selcall.rows, selcall.version)
    /\ selcall' = [selcall EXCEPT !.pc = "source", !.release = release]
    /\ UNCHANGED <<commitVars, resolveVars, grepVars, toolVars, readVars, globVars, countVars, archiveVars, extractVars, keyVars, regexVars, contentVars, outputVars, binaryVars, rankVars, cacheVars, pathVars, releaseVars, feedVars, loopVars>>

\* if not releases: raise ValueError("No releases found ...")
SelectNoReleases ==
    /\ selcall.pc = "releases"
    /\ retrieve_by_package(selcall.rows, selcall.version) = {}
    /\ selcall' = [selcall EXCEPT !.pc = "raised", !.exception = "ValueError"]
    /\ UNCHANGED <<commitVars, resolveVars, grepVars, toolVars, readVars, globVars, countVars, archiveVars, extractVars, keyVars, regexVars, contentVars, outputVars, binaryVars, rankVars, cacheVars, pathVars, releaseVars, feedVars, loopVars>>

\* GitHub path: get_commit_sha(timestamp=release.last_seen)
SelectCommitTimestamp ==
    /\ selcall.pc = "source"
    /\ selcall' = [selcall EXCEPT !.pc = "github", !.timestamp = selcall.release.last_seen]
    /\ UNCHANGED <<commitVars, resolveVars, grepVars, toolVars, readVars, globVars, countVars, archiveVars, extractVars, keyVars, regexVars, contentVars, outputVars, binaryVars, rankVars, cacheVars, pathVars, releaseVars, feedVars, loopVars>>

\* Registry fallback: release_version = version or release.version
SelectRegistryVersion ==
    /\ selcall.pc = "source"
    /\ selcall' = [selcall EXCEPT !.pc = "registry",
                        !.release_version = IF selcall.version # None
                                            THEN selcall.version
                                            ELSE selcall.release.version]
    /\ UNCHANGED <<commitVars, resolveVars, grepVars, toolVars, readVars, globVars, countVars, archiveVars, extractVars, keyVars, regexVars, contentVars, outputVars, binaryVars, rankVars, cacheVars, pathVars, releaseVars, feedVars, loopVars>>

NextSelect ==
    \/ \E release \in ReleaseRows : SelectRelease(release)
    \/ SelectNoReleases
    \/ SelectCommitTimestamp
    \/ SelectRegistryVersion

(***************************************************************************)
(* Candidate extractor: utils/github_extraction.py                         *)
(***************************************************************************)

Https == <<"h", "t", "t", "p", "s", ":", "/", "/">>
GithubCom == <<"g", "i", "t", "h", "u", "b", ".", "c", "o", "m">>
GitlabCom == <<"g", "i", "t", "l", "a", "b", ".", "c", "o", "m">>
NotGithubCom == <<"n", "o", "t", "g", "i", "t", "h", "u", "b", ".", "c", "o", "m">>
ExampleOrg == <<"e", "x", "a", "m", "p", "l", "e", ".", "o", "r", "g">>
HttpsGithubCom == Https \o GithubCom
HttpsGitlabCom == Https \o GitlabCom
DotGit == <<".", "g", "i", "t">>

\* The URLs drawn: https://[u:p@]host/owner/b[.git][/issues][?q=1][#f]
UrlHosts == {GithubCom, GitlabCom, NotGithubCom, ExampleOrg}
UrlOwners == {<<"a">>, <<"s", "e", "t", "t", "i", "n", "g", "s">>, <<"1", "2">>}
UrlShapes ==
    [credentials : BOOLEAN, host : UrlHosts, owner : UrlOwners, dot_git : BOOLEAN,
     segments : BOOLEAN, query : BOOLEAN, fragment : BOOLEAN]
UrlText(u) ==
    Https \o (IF u.credentials THEN <<"u", ":", "p", "@">> ELSE <<>>)
        \o u.host \o Slash \o u.owner \o Slash \o <<"b">>
        \o (IF u.dot_git THEN DotGit ELSE <<>>)
        \o (IF u.segments THEN <<"/", "i", "s", "s", "u", "e", "s">> ELSE <<>>)
        \o (IF u.query THEN <<"?", "q", "=", "1">> ELSE <<>>)
        \o (IF u.fragment THEN <<"#", "f">> ELSE <<>>)
\* Where the package metadata holds the URL.
UrlPlaces == {"project_urls", "description", "both"}
DescriptionText(url) == <<"r", "e", "p", "o", " ", "a", "t", " ">> \o url \o <<".">>

\* sub in s
Contains(s, sub) ==
    \E i \in 1..(Len(s) - Len(sub) + 1) : SubSeq(s, i, i + Len(sub) - 1) = sub

\* s.split(c)[0]
BeforeFirst(s, c) ==
    LET at == {i \in 1..Len(s) : s[i] = c} IN
    IF at = {} THEN s
    ELSE SubSeq(s, 1, (CHOOSE i \in at : \A j \in at : i <= j) - 1)

\* s.removesuffix(suffix)
RemoveSuffix(s, suffix) ==
    IF Len(s) >= Len(suffix) /\ SubSeq(s, Len(s) - Len(suffix) + 1, Len(s)) = suffix
    THEN SubSeq(s, 1, Len(s) - Len(suffix))
    ELSE s

\* urlparse(url).path of a text without "?" and "#": what follows the
\* network location of an https URL; the whole text when it has no scheme.
UrlPath(url) ==
    IF StartsWith(url, Https)
    THEN LET rest == SubSeq(url, Len(Https) + 1, Len(url))
             at == {i \in 1..Len(rest) : rest[i] = "/"}
         IN  IF at = {} THEN <<>>
             ELSE SubSeq(rest, CHOOSE i \in at : \A j \in at : i <= j, Len(rest))
    ELSE url

\* The character classes of url_pattern (re.IGNORECASE).
AlphaNum ==
    {CodePointOrder[i] : i \in {k \in 1..Len(CodePointOrder) :
                                    CodePointOrder[k] \notin {" ", "#", "-", ".", "/", ":", "=", "?", "@", "_"}}}
UrlFinalChars == AlphaNum \cup {"+", "&", "@", "#", "/", "%", "=", "~", "_", "|", "$"}
UrlBodyChars == UrlFinalChars \cup {"-", "?", "!", ":", ",", "."}
UrlMarkers ==
    {<<"h", "t", "t", "p", "s", ":", "/", "/">>, <<"h", "t", "t", "p", ":", "/", "/">>, <<"f", "t", "p", ":", "/", "/">>, <<"f", "i", "l", "e", ":", "/", "/">>, <<"w", "w", "w", ".">>, <<"f", "t", "p", ".">>}

\* re.findall(url_pattern, text, re.IGNORECASE) on a text without
\* parentheses: from a marker, the longest run of body characters that ends
\* in a final character; the scan resumes after the match.
RECURSIVE extract_urls_from_text(_, _)
extract_urls_from_text(text, from) ==
    IF from > Len(text) THEN <<>>
    ELSE LET markers == {m \in UrlMarkers : StartsWith(SubSeq(text, from, Len(text)), m)}
             m == CHOOSE x \in markers : \A y \in markers : Len(y) <= Len(x)
             first == from + Len(m)
             ends == {e \in first..Len(text) :
                        /\ \A k \in first..e : text[k] \in UrlBodyChars
                        /\ text[e] \in UrlFinalChars}
             last == CHOOSE e \in ends : \A o \in ends : o <= e
         IN  IF markers = {} \/ ends = {}
             THEN extract_urls_from_text(text, from + 1)
             ELSE <<SubSeq(text, from, last)>> \o extract_urls_from_text(text, last + 1)

\* unique_urls: the first occurrence of each non-empty URL, in order
Unique(urls) ==
    LET Keep(i) == urls[i] # <<>> /\ \A j \in 1..(i - 1) : urls[j] # urls[i]
        kept == {i \in 1..Len(urls) : Keep(i)}
        Nth(k) == CHOOSE i \in kept : Cardinality({j \in kept : j <= i}) = k
    IN  [k \in 1..Cardinality(kept) |-> urls[Nth(k)]]

\* extract_urls_from_pypi_data: project_urls.values(), then the URLs of the
\* description; description None is the empty text.
extract_urls_from_pypi_data(description, project_urls) ==
    Unique(project_urls \o extract_urls_from_text(description, 1))

\* "github.com" in url
IsGithub(url) == Contains(url, GithubCom)
\* "gitlab.com" in url
IsGitlab(url) == Contains(url, GitlabCom)

filter_for_source_code_urls(urls) ==
    LET Keep(url) == IsGithub(url) \/ IsGitlab(url) IN SelectSeq(urls, Keep)

\* extract_repo_path_from_source_url: <<>> stands for None
extract_repo_path_from_source_url(url) ==
    LET cut == BeforeFirst(BeforeFirst(BeforeFirst(url, "#"), "?"), "@")
        path == StripSlashes(UrlPath(RemoveSuffix(cut, DotGit)))
        segments == SplitAll(path)
    IN  IF Len(segments) < 2 THEN <<>> ELSE Join(segments[1], segments[2])

\* sorted(list(cleaned_repos))
SetToSorted(S) ==
    LET Rank(x) == Cardinality({y \in S : StrLess(y, x)}) + 1 IN
    [k \in 1..Cardinality(S) |-> CHOOSE x \in S : Rank(x) = k]

clean_source_urls(source_urls) ==
    LET cleaned_repos ==
            {(IF IsGithub(source_urls[i]) THEN HttpsGithubCom ELSE HttpsGitlabCom)
                    \o Slash \o extract_repo_path_from_source_url(source_urls[i]) :
                i \in {k \in 1..Len(source_urls) :
                        /\ IsGithub(source_urls[k]) \/ IsGitlab(source_urls[k])
                        /\ extract_repo_path_from_source_url(source_urls[k]) # <<>>}}
    IN  SetToSorted(cleaned_repos)

github_reserved ==
    {<<"a", "b", "o", "u", "t">>, <<"a", "c", "c", "o", "u", "n", "t">>,
    <<"a", "d", "m", "i", "n">>, <<"a", "p", "i">>, <<"a", "p", "p", "s">>,
    <<"a", "s", "s", "e", "t", "s">>,
    <<"b", "u", "s", "i", "n", "e", "s", "s">>,
    <<"c", "o", "d", "e", "s", "p", "a", "c", "e", "s">>,
    <<"c", "o", "l", "l", "e", "c", "t", "i", "o", "n", "s">>,
    <<"c", "o", "n", "t", "a", "c", "t">>,
    <<"c", "u", "s", "t", "o", "m", "e", "r", "-", "s", "t", "o", "r", "i", "e", "s">>,
    <<"d", "a", "s", "h", "b", "o", "a", "r", "d">>,
    <<"d", "e", "v", "i", "c", "e", "s">>,
    <<"e", "n", "t", "e", "r", "p", "r", "i", "s", "e">>,
    <<"e", "v", "e", "n", "t", "s">>, <<"e", "x", "p", "l", "o", "r", "e">>,
    <<"f", "e", "a", "t", "u", "r", "e", "s">>, <<"g", "i", "s", "t">>,
    <<"h", "e", "l", "p">>, <<"h", "o", "m", "e">>,
    <<"i", "s", "s", "u", "e", "s">>, <<"j", "o", "i", "n">>,
    <<"l", "o", "g", "i", "n">>, <<"l", "o", "g", "o", "u", "t">>,
    <<"m", "a", "r", "k", "e", "t", "p", "l", "a", "c", "e">>,
    <<"n", "e", "w">>,
    <<"n", "o", "t", "i", "f", "i", "c", "a", "t", "i", "o", "n", "s">>,
    <<"o", "r", "g", "a", "n", "i", "z", "a", "t", "i", "o", "n", "s">>,
    <<"o", "r", "g", "s">>, <<"p", "r", "i", "c", "i", "n", "g">>,
    <<"p", "u", "l", "l", "s">>, <<"s", "e", "a", "r", "c", "h">>,
    <<"s", "e", "c", "u", "r", "i", "t", "y">>,
    <<"s", "e", "s", "s", "i", "o", "n", "s">>,
    <<"s", "e", "t", "t", "i", "n", "g", "s">>,
    <<"s", "i", "g", "n", "u", "p">>, <<"s", "i", "t", "e">>,
    <<"s", "p", "o", "n", "s", "o", "r", "s">>, <<"s", "t", "a", "r", "s">>,
    <<"t", "e", "a", "m">>, <<"t", "o", "p", "i", "c", "s">>,
    <<"t", "r", "e", "n", "d", "i", "n", "g">>, <<"u", "s", "e", "r", "s">>,
    <<"w", "a", "t", "c", "h", "i", "n", "g">>, <<"w", "i", "k", "i">>}

gitlab_reserved ==
    {<<"a", "b", "o", "u", "t">>, <<"a", "d", "m", "i", "n">>,
    <<"a", "p", "i">>, <<"a", "s", "s", "e", "t", "s">>,
    <<"d", "a", "s", "h", "b", "o", "a", "r", "d">>,
    <<"e", "x", "p", "l", "o", "r", "e">>, <<"g", "r", "o", "u", "p", "s">>,
    <<"h", "e", "l", "p">>, <<"i", "m", "p", "o", "r", "t">>,
    <<"i", "n", "v", "i", "t", "e", "s">>, <<"i", "s", "s", "u", "e", "s">>,
    <<"l", "o", "g", "i", "n">>,
    <<"m", "e", "r", "g", "e", "_", "r", "e", "q", "u", "e", "s", "t", "s">>,
    <<"n", "e", "w">>,
    <<"n", "o", "t", "i", "f", "i", "c", "a", "t", "i", "o", "n", "s">>,
    <<"o", "a", "u", "t", "h">>, <<"p", "r", "o", "f", "i", "l", "e">>,
    <<"p", "r", "o", "j", "e", "c", "t", "s">>,
    <<"p", "u", "b", "l", "i", "c">>, <<"s", "e", "a", "r", "c", "h">>,
    <<"s", "e", "t", "t", "i", "n", "g", "s">>,
    <<"s", "n", "i", "p", "p", "e", "t", "s">>, <<"u", "s", "e", "r", "s">>,
    <<"s">>, <<"-">>}

\* first_segment.isdigit()
IsDigit(s) == s # <<>> /\ \A i \in 1..Len(s) : \E d \in 1..Len(DigitChars) : s[i] = DigitChars[d]

filter_out_reserved_paths(source_urls) ==
    LET Keep(url) ==
            LET segments == SplitAll(StripSlashes(UrlPath(url)))
                reserved == IF IsGithub(url) THEN github_reserved ELSE gitlab_reserved
            IN  /\ Len(segments) >= 2
                /\ IsGithub(url) \/ IsGitlab(url)
                /\ segments[1] \notin reserved
                /\ ~IsDigit(segments[1])
    IN  SelectSeq(source_urls, Keep)

extract_github_candidates(description, project_urls) ==
    LET source_code_urls ==
            filter_for_source_code_urls(extract_urls_from_pypi_data(description, project_urls))
    IN  IF source_code_urls = <<>> THEN <<>>
        ELSE filter_out_reserved_paths(clean_source_urls(source_code_urls))

NoUrl ==
    [credentials |-> FALSE, host |-> <<>>, owner |-> <<>>, dot_git |-> FALSE,
     segments |-> FALSE, query |-> FALSE, fragment |-> FALSE]

IdleExtractVars ==
    xcall = [pc |-> "idle", url |-> NoUrl, description |-> <<>>, project_urls |-> <<>>,
             candidates |-> <<>>]

\* The metadata of a package that names one URL.
InitExtractVars ==
    \E u \in UrlShapes, place \in UrlPlaces :
        xcall = [pc |-> "metadata", url |-> u,
                 description |-> IF place = "project_urls" THEN <<>>
                                 ELSE DescriptionText(UrlText(u)),
                 project_urls |-> IF place = "description" THEN <<>>
                                  ELSE <<UrlText(u)>>,
                 candidates |-> <<>>]

\* candidates = extract_github_candidates(description, project_urls)
ExtractCandidates ==
    /\ xcall.pc = "metadata"
    /\ xcall' = [xcall EXCEPT !.pc = "done",
                    !.candidates = extract_github_candidates(xcall.description,
                                                             xcall.project_urls)]
    /\ UNCHANGED <<commitVars, resolveVars, grepVars, toolVars, readVars, globVars, countVars, archiveVars, selectVars, keyVars, regexVars, contentVars, outputVars, binaryVars, rankVars, cacheVars, pathVars, releaseVars, feedVars, loopVars>>

NextExtract == ExtractCandidates

(***************************************************************************)
(* API keys: routes/v1/apikeys service.py and repository.py, and the MCP   *)
(* token verifier of mcp_server.py                                         *)
(***************************************************************************)

\* Bound of the model.
NumKeyCalls == 2

KeyCalls == 1..NumKeyCalls
KeyIds == {"id1", "id2"}
KeyNames == {"name1", "name2"}

\* A bearer token: the token create() generated for a key, or one it never issued.
Token(id) == <<"pydocs", id>>
Tokens == {Token(id) : id \in KeyIds} \cup {Token("other")}
\* hashlib.sha256(api_key.encode()).hexdigest()
Sha256(api_key) == <<"sha256", api_key>>

\* Table api_keys (DBAPIKey), one slot per primary key: a slot is "new" until a
\* row is inserted under that id and "removed" once the row has been deleted.
NoRow == [state |-> "new", is_active |-> FALSE, key_name |-> None, key_hash |-> <<>>]
RemovedRow == [NoRow EXCEPT !.state = "removed"]

\* APIKeyService.create: APIKeyInput(user_id, key_name, is_active=True) inserted
NewRow(id, key_name) ==
    [state |-> "stored", is_active |-> TRUE, key_name |-> key_name,
     key_hash |-> Sha256(Token(id))]

\* APIKeyUpdateFull as update() sees it through model_dump(exclude_unset=True)
UpdateData ==
    {[fields |-> {"key_name"}, key_name |-> "name2", is_active |-> TRUE],
     [fields |-> {"is_active"}, key_name |-> "name2", is_active |-> TRUE],
     [fields |-> {"is_active"}, key_name |-> "name2", is_active |-> FALSE],
     [fields |-> {"key_name", "is_active"}, key_name |-> "name2", is_active |-> TRUE]}
NoData == [fields |-> {}, key_name |-> "name2", is_active |-> TRUE]
Deactivate == [fields |-> {"is_active"}, key_name |-> "name2", is_active |-> FALSE]

\* result.one() of a statement that selected the rows S
One(S) ==
    IF Cardinality(S) = 1 THEN [exception |-> None, id |-> CHOOSE id \in S : TRUE]
    ELSE IF S = {} THEN [exception |-> "NoResultFound", id |-> None]
    ELSE [exception |-> "MultipleResultsFound", id |-> None]

\* APIKeyRepository.retrieve(api_key_id, include_inactive)
APIKeyRepositoryRetrieve(table, api_key_id, include_inactive) ==
    One({id \in KeyIds : /\ id = api_key_id
                         /\ table[id].state = "stored"
                         /\ (include_inactive \/ table[id].is_active)})

\* Variant: the statement without the is_active condition.
APIKeyRepositoryRetrieveByHash_AnyState(table, key_hash) ==
    One({id \in KeyIds : table[id].state = "stored" /\ table[id].key_hash = key_hash})

\* APIKeyRepository.retrieve_by_hash(key_hash)
APIKeyRepositoryRetrieveByHash(table, key_hash) ==
    One({id \in KeyIds : /\ table[id].state = "stored"
                         /\ table[id].key_hash = key_hash
                         /\ table[id].is_active})

\* APIKeyRepository.update(api_key, data): setattr of each dumped field on the
\* object the session loaded, then commit and refresh. The session's UPDATE
\* carries the attributes whose value differs from the loaded one; it raises
\* StaleDataError when it matches no row, and refresh raises
\* InvalidRequestError when the row is gone.
ChangedFields(loaded, data) ==
    {f \in data.fields : IF f = "key_name" THEN data.key_name # loaded.key_name
                         ELSE data.is_active # loaded.is_active}

APIKeyRepositoryUpdate(row, loaded, data) ==
    LET changed == ChangedFields(loaded, data) IN
    IF row.state # "stored"
    THEN [exception |-> IF changed # {} THEN "StaleDataError" ELSE "InvalidRequestError",
          row |-> row]
    ELSE [exception |-> None,
          row |-> [row EXCEPT
                     !.key_name = IF "key_name" \in changed THEN data.key_name ELSE @,
                     !.is_active = IF "is_active" \in changed THEN data.is_active ELSE @]]

\* APIKeyRepository.delete(api_key): session.delete, commit, return True
APIKeyRepositoryDelete(row) == [exception |-> None, row |-> RemovedRow]

\* Variant: delete() that removes the row whatever `permanent` is.
APIKeyServiceDeleteWrite_AlwaysPermanent(row, loaded, permanent) ==
    APIKeyRepositoryDelete(row)

\* APIKeyService.delete after its retrieve: `if permanent: repository.delete`,
\* else repository.update(api_key, APIKeyUpdateFull(is_active=False))
APIKeyServiceDeleteWrite(row, loaded, permanent) ==
    IF permanent THEN APIKeyRepositoryDelete(row)
    ELSE APIKeyRepositoryUpdate(row, loaded, Deactivate)

\* `except NoResultFound: raise InvalidAPIKeyException`, an HTTPException
ServiceException(exc) == IF exc = "NoResultFound" THEN "InvalidAPIKeyException" ELSE exc
IsHTTPException(exc) == exc = "InvalidAPIKeyException"

\* SourcedTokenVerifier.verify_token(token)
verify_token(table, token) ==
    LET found == APIKeyRepositoryRetrieveByHash(table, Sha256(token)) IN
    IF found.exception = None THEN [exception |-> None, value |-> "AccessToken"]
    ELSE IF IsHTTPException(ServiceException(found.exception))
    THEN [exception |-> None, value |-> None]
    ELSE [exception |-> found.exception, value |-> None]

IdleKeyCall ==
    [pc |-> "idle", op |-> None, id |-> None, token |-> <<>>, permanent |-> FALSE,
     data |-> NoData, loaded |-> NoRow, exception |-> None, value |-> None]

IdleKeyVars ==
    /\ api_keys = [id \in KeyIds |-> NoRow]
    /\ kcall = [c \in KeyCalls |-> IdleKeyCall]

\* Each key either was never created or is as create() left it.
InitKeyVars ==
    /\ api_keys \in [KeyIds -> {NoRow} \cup {NewRow(id, "name1") : id \in KeyIds}]
    /\ \A id \in KeyIds : api_keys[id].state = "stored" => api_keys[id] = NewRow(id, "name1")
    /\ kcall = [c \in KeyCalls |-> IdleKeyCall]

KeyDone(c, op, id, exc, value) ==
    [kcall EXCEPT ![c] = [@ EXCEPT !.pc = "done", !.op = op, !.id = id,
                                   !.exception = exc, !.value = value]]

\* APIKeyService.create(user_id, key_name): a row under a fresh uuid4
KeyCreate(c, id, key_name) ==
    /\ kcall[c].pc = "idle"
    /\ api_keys[id].state = "new"
    /\ api_keys' = [api_keys EXCEPT ![id] = NewRow(id, key_name)]
    /\ kcall' = KeyDone(c, "create", id, None, "APIKeyOutputFirstCreation")
    /\ UNCHANGED <<commitVars, resolveVars, grepVars, toolVars, readVars, globVars, countVars, archiveVars, selectVars, extractVars, regexVars, contentVars, outputVars, binaryVars, rankVars, cacheVars, pathVars, releaseVars, feedVars, loopVars>>

\* The first statement of APIKeyService.update and delete:
\* `api_key = await self.repository.retrieve(api_key_id)` inside try/except
KeyRetrieved(c, op, id, permanent, data) ==
    LET found == APIKeyRepositoryRetrieve(api_keys, id, FALSE) IN
    [kcall EXCEPT ![c] =
        IF found.exception = None
        THEN [@ EXCEPT !.pc = "retrieved", !.op = op, !.id = id,
                       !.permanent = permanent, !.data = data,
                       !.loaded = api_keys[id]]
        ELSE [@ EXCEPT !.pc = "done", !.op = op, !.id = id,
                       !.permanent = permanent, !.data = data,
                       !.exception = ServiceException(found.exception)]]

\* APIKeyService.update(api_key_id, update_data), first statement
KeyUpdateRetrieve(c, id, data) ==
    /\ kcall[c].pc = "idle"
    /\ kcall' = KeyRetrieved(c, "update", id, FALSE, data)
    /\ UNCHANGED api_keys
    /\ UNCHANGED <<commitVars, resolveVars, grepVars, toolVars, readVars, globVars, countVars, archiveVars, selectVars, extractVars, regexVars, contentVars, outputVars, binaryVars, rankVars, cacheVars, pathVars, releaseVars, feedVars, loopVars>>

\* APIKeyService.delete(api_key_id, permanent), first statement
KeyDeleteRetrieve(c, id, permanent) ==
    /\ kcall[c].pc = "idle"
    /\ kcall' = KeyRetrieved(c, "delete", id, permanent, NoData)
    /\ UNCHANGED api_keys
    /\ UNCHANGED <<commitVars, resolveVars, grepVars, toolVars, readVars, globVars, countVars, archiveVars, selectVars, extractVars, regexVars, contentVars, outputVars, binaryVars, rankVars, cacheVars, pathVars, releaseVars, feedVars, loopVars>>

\* APIKeyService.update, second statement: repository.update(api_key, update_data)
KeyUpdateWrite(c) ==
    /\ kcall[c].pc = "retrieved"
    /\ kcall[c].op = "update"
    /\ LET id == kcall[c].id
           written == APIKeyRepositoryUpdate(api_keys[id], kcall[c].loaded, kcall[c].data) IN
       /\ api_keys' = [api_keys EXCEPT ![id] = written.row]
       /\ kcall' = KeyDone(c, "update", id, written.exception,
                           IF written.exception = None THEN "APIKeyOutput" ELSE None)
    /\ UNCHANGED <<commitVars, resolveVars, grepVars, toolVars, readVars, globVars, countVars, archiveVars, selectVars, extractVars, regexVars, contentVars, outputVars, binaryVars, rankVars, cacheVars, pathVars, releaseVars, feedVars, loopVars>>

\* APIKeyService.delete, the statements after the retrieve
KeyDeleteWrite(c) ==
    /\ kcall[c].pc = "retrieved"
    /\ kcall[c].op = "delete"
    /\ LET id == kcall[c].id
           written == APIKeyServiceDeleteWrite(api_keys[id], kcall[c].loaded,
                                               kcall[c].permanent) IN
       /\ api_keys' = [api_keys EXCEPT ![id] = written.row]
       /\ kcall' = KeyDone(c, "delete", id, written.exception,
                           IF written.exception = None THEN "True" ELSE None)
    /\ UNCHANGED <<commitVars, resolveVars, grepVars, toolVars, readVars, globVars, countVars, archiveVars, selectVars, extractVars, regexVars, contentVars, outputVars, binaryVars, rankVars, cacheVars, pathVars, releaseVars, feedVars, loopVars>>

\* SourcedTokenVerifier.verify_token(token)
KeyVerifyToken(c, token) ==
    /\ kcall[c].pc = "idle"
    /\ LET verified == verify_token(api_keys, token) IN
       kcall' = [kcall EXCEPT ![c] = [@ EXCEPT !.pc = "done", !.op = "verify_token",
                                               !.token = token,
                                               !.exception = verified.exception,
                                               !.value = verified.value]]
    /\ UNCHANGED api_keys
    /\ UNCHANGED <<commitVars, resolveVars, grepVars, toolVars, readVars, globVars, countVars, archiveVars, selectVars, extractVars, regexVars, contentVars, outputVars, binaryVars, rankVars, cacheVars, pathVars, releaseVars, feedVars, loopVars>>

NextKey ==
    \/ \E c \in KeyCalls, id \in KeyIds, key_name \in KeyNames : KeyCreate(c, id, key_name)
    \/ \E c \in KeyCalls, id \in KeyIds, data \in UpdateData : KeyUpdateRetrieve(c, id, data)
    \/ \E c \in KeyCalls, id \in KeyIds, permanent \in BOOLEAN : KeyDeleteRetrieve(c, id, permanent)
    \/ \E c \in KeyCalls : KeyUpdateWrite(c)
    \/ \E c \in KeyCalls : KeyDeleteWrite(c)
    \/ \E c \in KeyCalls, token \in Tokens : KeyVerifyToken(c, token)

(***************************************************************************)
(* grep: mcp_server.py _compile_re2 and the handler grep puts around it    *)
(***************************************************************************)

\* Patterns by what the two engines make of them: google-re2 compiles the
\* first two and rejects backreferences and lookaround; stdlib re compiles
\* all but the unbalanced one.
PatternKinds == {"literal", "anchored", "backreference", "lookaround", "unbalanced"}
Re2Accepts(pattern) == pattern \in {"literal", "anchored"}
ReAccepts(pattern) == pattern # "unbalanced"

\* What a compiled regex does with case, `.` and ^/$.
NoSettings == [case_sensitive |-> TRUE, dot_nl |-> FALSE, line_anchors |-> FALSE]

\* re2.Options() with case_sensitive / dot_nl set as the code sets them, and
\* "(?m)" prepended to the pattern when multiline is false.
Re2Settings(case_insensitive, multiline) ==
    [case_sensitive |-> ~case_insensitive,
     dot_nl |-> multiline,
     line_anchors |-> ~multiline]

\* flags |= re.IGNORECASE; flags |= re.DOTALL | re.MULTILINE
ReSettings(case_insensitive, multiline) ==
    [case_sensitive |-> ~case_insensitive,
     dot_nl |-> multiline,
     line_anchors |-> multiline]

\* The try block of _compile_re2: import re2, then re2.compile.
CompileTry(pattern, case_insensitive, multiline, re2_available) ==
    IF ~re2_available THEN [exception |-> "ImportError", settings |-> NoSettings]
    ELSE IF ~Re2Accepts(pattern) THEN [exception |-> "re2.error", settings |-> NoSettings]
    ELSE [exception |-> None, settings |-> Re2Settings(case_insensitive, multiline)]

\* `except (ImportError, re2.error):` and its body.  re2 is a local name of
\* _compile_re2, bound by the import: when the import failed, evaluating
\* re2.error raises UnboundLocalError in place of the handler.
CompileExcept(pattern, case_insensitive, multiline, re2_available) ==
    IF ~re2_available THEN [exception |-> "UnboundLocalError", settings |-> NoSettings]
    ELSE IF ~ReAccepts(pattern) THEN [exception |-> "re.error", settings |-> NoSettings]
    ELSE [exception |-> None, settings |-> ReSettings(case_insensitive, multiline)]

IdleRegexVars ==
    recall = [pc |-> "idle", pattern |-> None, case_insensitive |-> FALSE,
              multiline |-> FALSE, re2_available |-> FALSE, using_re2 |-> FALSE,
              settings |-> NoSettings, exception |-> None, response |-> None]

\* grep is past resolve_package, about to compile its pattern.
InitRegexVars ==
    \E pattern \in PatternKinds, case_insensitive \in BOOLEAN, multiline \in BOOLEAN,
       re2_available \in BOOLEAN :
        recall = [pc |-> "try", pattern |-> pattern, case_insensitive |-> case_insensitive,
                  multiline |-> multiline, re2_available |-> re2_available,
                  using_re2 |-> FALSE, settings |-> NoSettings, exception |-> None,
                  response |-> None]

\* _compile_re2, the try block
RegexTry ==
    /\ recall.pc = "try"
    /\ LET r == CompileTry(recall.pattern, recall.case_insensitive, recall.multiline,
                           recall.re2_available) IN
       recall' = IF r.exception = None
                 THEN [recall EXCEPT !.pc = "compiled", !.using_re2 = TRUE,
                                     !.settings = r.settings]
                 ELSE [recall EXCEPT !.pc = "except", !.exception = r.exception]
    /\ UNCHANGED <<commitVars, resolveVars, grepVars, toolVars, readVars, globVars, countVars, archiveVars, selectVars, extractVars, keyVars, contentVars, outputVars, binaryVars, rankVars, cacheVars, pathVars, releaseVars, feedVars, loopVars>>

\* _compile_re2, the except clause
RegexExcept ==
    /\ recall.pc = "except"
    /\ LET r == CompileExcept(recall.pattern, recall.case_insensitive, recall.multiline,
                              recall.re2_available) IN
       recall' = IF r.exception = None
                 THEN [recall EXCEPT !.pc = "compiled", !.using_re2 = FALSE,
                                     !.settings = r.settings, !.exception = None]
                 ELSE [recall EXCEPT !.pc = "raised", !.exception = r.exception]
    /\ UNCHANGED <<commitVars, resolveVars, grepVars, toolVars, readVars, globVars, countVars, archiveVars, selectVars, extractVars, keyVars, contentVars, outputVars, binaryVars, rankVars, cacheVars, pathVars, releaseVars, feedVars, loopVars>>

\* grep: regex, using_re2 = _compile_re2(...) returned
RegexCompiled ==
    /\ recall.pc = "compiled"
    /\ recall' = [recall EXCEPT !.pc = "scan"]
    /\ UNCHANGED <<commitVars, resolveVars, grepVars, toolVars, readVars, globVars, countVars, archiveVars, selectVars, extractVars, keyVars, contentVars, outputVars, binaryVars, rankVars, cacheVars, pathVars, releaseVars, feedVars, loopVars>>

\* grep: except re.error as e: return f"Error: Invalid regex pattern: {e}"
RegexRaised ==
    /\ recall.pc = "raised"
    /\ recall' = IF recall.exception = "re.error"
                 THEN [recall EXCEPT !.pc = "returned", !.exception = None,
                                     !.response = "Error: Invalid regex pattern"]
                 ELSE [recall EXCEPT !.pc = "propagated"]
    /\ UNCHANGED <<commitVars, resolveVars, grepVars, toolVars, readVars, globVars, countVars, archiveVars, selectVars, extractVars, keyVars, contentVars, outputVars, binaryVars, rankVars, cacheVars, pathVars, releaseVars, feedVars, loopVars>>

NextRegex == RegexTry \/ RegexExcept \/ RegexCompiled \/ RegexRaised

(***************************************************************************)
(* grep, content mode: the entries mcp_server.py grep builds for one file  *)
(***************************************************************************)

\* Bound of the files drawn for content mode.
MaxRawLen == 4

\* The bytes of a file: "o", newline, and the two bytes of the UTF-8 encoding
\* of e-acute, which may also stand alone as invalid input.
RawBytes == {"o", "\n", "C3", "A9"}
Raws == UNION {[1..n -> RawBytes] : n \in 0..MaxRawLen}
\* The patterns, as the characters they match literally.
ContentPatterns == {<<"o">>, <<"\n">>, <<"o", "\n", "o">>, <<"e'">>}
ContentOffsets == {0, 1}
ContentHeadLimits == {0, 1}

\* raw.decode("utf-8", errors="replace")
RECURSIVE Decode(_)
Decode(raw) ==
    IF raw = <<>> THEN <<>>
    ELSE IF raw[1] = "C3" /\ Len(raw) >= 2 /\ raw[2] = "A9"
    THEN <<"e'">> \o Decode(SubSeq(raw, 3, Len(raw)))
    ELSE IF raw[1] \in {"C3", "A9"}
    THEN <<"U+FFFD">> \o Decode(Tail(raw))
    ELSE <<raw[1]>> \o Decode(Tail(raw))

\* The UTF-8 encoding of a pattern, which re2 matches against bytes.
RECURSIVE Encode(_)
Encode(chars) ==
    IF chars = <<>> THEN <<>>
    ELSE (IF chars[1] = "e'" THEN <<"C3", "A9">> ELSE <<chars[1]>>) \o Encode(Tail(chars))

\* data[:offset].count("\n"), offset counted from 0
CountNewlines(data, offset) == Cardinality({i \in 1..offset : data[i] = "\n"})

\* data.rfind("\n", 0, offset): the highest index below offset, or -1
RFindNewline(data, offset) ==
    LET at == {i \in 0..(offset - 1) : data[i + 1] = "\n"} IN
    IF at = {} THEN 0 - 1 ELSE CHOOSE i \in at : \A j \in at : j <= i

\* data.find("\n", offset): the lowest index from offset on, or -1
FindNewline(data, offset) ==
    LET at == {i \in offset..(Len(data) - 1) : data[i + 1] = "\n"} IN
    IF at = {} THEN 0 - 1 ELSE CHOOSE i \in at : \A j \in at : i <= j

\* Variant: the count of newlines without the + 1.
byte_offset_to_line_num_ZeroBased(data, offset) == CountNewlines(data, offset)

\* _byte_offset_to_line_num(data, offset)
byte_offset_to_line_num(data, offset) == CountNewlines(data, offset) + 1

\* data[line_start:line_end] of _extract_line_at_offset and of the fallback branch
LineAtOffset(data, offset) ==
    LET line_start == RFindNewline(data, offset) + 1
        found == FindNewline(data, offset)
        line_end == IF found = 0 - 1 THEN Len(data) ELSE found
    IN  SubSeq(data, line_start + 1, line_end)

\* _extract_line_at_offset(data, offset)
extract_line_at_offset(data, offset) == Decode(LineAtOffset(data, offset))

\* The entry of one match: path:line_num:line, by the branch of the engine.
ContentEntry(raw, text, start, using_re2) ==
    IF using_re2
    THEN [file |-> 1, line_num |-> byte_offset_to_line_num(raw, start),
          line |-> extract_line_at_offset(raw, start)]
    ELSE [file |-> 1, line_num |-> CountNewlines(text, start) + 1,
          line |-> LineAtOffset(text, start)]

\* The content branch of the loop body on one file: finditer over the bytes
\* (re2) or over the decoded text (re), entry_count against offset and target.
ContentEntries(raw, pattern, using_re2, offset, head_limit) ==
    LET text == IF using_re2 THEN raw ELSE Decode(raw)
        searched == IF using_re2 THEN Encode(pattern) ELSE pattern
        matches == FindAll(searched, text, 1)
        target == Target(offset, head_limit)
        seen == IF target # 0 /\ Len(matches) > target THEN target ELSE Len(matches)
    IN  [k \in 1..(IF seen > offset THEN seen - offset ELSE 0) |->
            ContentEntry(raw, text, matches[offset + k] - 1, using_re2)]

IdleContentVars ==
    mcall = [pc |-> "idle", raw |-> <<>>, pattern |-> <<>>, using_re2 |-> FALSE,
             offset |-> 0, head_limit |-> 0, entries |-> <<>>]

InitContentVars ==
    mcall \in [pc : {"file"}, raw : Raws, pattern : ContentPatterns, using_re2 : BOOLEAN,
               offset : ContentOffsets, head_limit : ContentHeadLimits, entries : {<<>>}]

\* The content branch of the loop body runs on the file.
GrepContentFile ==
    /\ mcall.pc = "file"
    /\ mcall' = [mcall EXCEPT !.pc = "done",
                    !.entries = ContentEntries(mcall.raw, mcall.pattern, mcall.using_re2,
                                               mcall.offset, mcall.head_limit)]
    /\ UNCHANGED <<commitVars, resolveVars, grepVars, toolVars, readVars, globVars, countVars, archiveVars, selectVars, extractVars, keyVars, regexVars, outputVars, binaryVars, rankVars, cacheVars, pathVars, releaseVars, feedVars, loopVars>>

NextContent == GrepContentFile

(***************************************************************************)
(* grep: mcp_server.py grep, from the entries it kept to the returned text *)
(***************************************************************************)

\* Bound of the model.
MaxEntries == 3

\* Program constant of grep.
MAX_OUTPUT_CHARS == 30000

\* An entry is its number of characters.
EntryLens == {1, 14999, 15000, 29999, 30000, 30001}
EntryLists == UNION {[1..n -> EntryLens] : n \in 0..MaxEntries}

\* A text is a sequence of pieces: characters first..last of entry number
\* index, or of a literal.
EntryPiece(k, len) == [part |-> "entry", index |-> k, first |-> 1, last |-> len]
Newline(k) == [part |-> "\n", index |-> k, first |-> 1, last |-> 1]
NoMatches == [part |-> "No matches found.", index |-> 0, first |-> 1, last |-> 17]
TruncationNotice ==
    [part |-> "\n\n... output truncated at 30,000 characters.", index |-> 0,
     first |-> 1, last |-> 44]
BlankLine == [part |-> "\n\n", index |-> 0, first |-> 1, last |-> 2]
SourceLabel == [part |-> "Source: PyPI sdist (p==1.0)", index |-> 0, first |-> 1, last |-> 27]

PieceLen(piece) == piece.last - piece.first + 1

\* len(text)
RECURSIVE TextLen(_)
TextLen(text) == IF text = <<>> THEN 0 ELSE PieceLen(text[1]) + TextLen(Tail(text))

\* "\n".join(entries)
JoinEntries(entries) ==
    [i \in 1..(IF entries = <<>> THEN 0 ELSE 2 * Len(entries) - 1) |->
        IF i % 2 = 1 THEN EntryPiece((i + 1) \div 2, entries[(i + 1) \div 2])
        ELSE Newline(i \div 2)]

\* text[:n], n >= 0
RECURSIVE Prefix(_, _)
Prefix(text, n) ==
    IF text = <<>> \/ n = 0 THEN <<>>
    ELSE IF PieceLen(text[1]) <= n
    THEN <<text[1]>> \o Prefix(Tail(text), n - PieceLen(text[1]))
    ELSE <<[text[1] EXCEPT !.last = text[1].first + n - 1]>>

\* Variant: the limit itself counts as exceeding it.
ExceedsLimit_Inclusive(output) == TextLen(output) >= MAX_OUTPUT_CHARS
\* if len(output) > MAX_OUTPUT_CHARS
ExceedsLimit(output) == TextLen(output) > MAX_OUTPUT_CHARS

\* The lines of grep after the scan loop.
GrepOutput(entries, source_label) ==
    IF entries = <<>> THEN <<NoMatches>>
    ELSE LET output == JoinEntries(entries)
             capped == IF ExceedsLimit(output)
                       THEN Prefix(output, MAX_OUTPUT_CHARS) \o <<TruncationNotice>>
                       ELSE output
         IN  capped \o <<BlankLine, source_label>>

IdleOutputVars ==
    ocall = [pc |-> "idle", entries |-> <<>>, response |-> <<>>]

\* The scan loop has ended with these entries.
InitOutputVars ==
    ocall \in [pc : {"entries"}, entries : EntryLists, response : {<<>>}]

\* if not entries: return "No matches found."
GrepNoEntries ==
    /\ ocall.pc = "entries"
    /\ ocall.entries = <<>>
    /\ ocall' = [ocall EXCEPT !.pc = "done", !.response = GrepOutput(<<>>, SourceLabel)]
    /\ UNCHANGED <<commitVars, resolveVars, grepVars, toolVars, readVars, globVars, countVars, archiveVars, selectVars, extractVars, keyVars, regexVars, contentVars, binaryVars, rankVars, cacheVars, pathVars, releaseVars, feedVars, loopVars>>

\* join, truncate at 30,000 characters, append the source label
GrepJoinEntries ==
    /\ ocall.pc = "entries"
    /\ ocall.entries # <<>>
    /\ ocall' = [ocall EXCEPT !.pc = "done",
                              !.response = GrepOutput(ocall.entries, SourceLabel)]
    /\ UNCHANGED <<commitVars, resolveVars, grepVars, toolVars, readVars, globVars, countVars, archiveVars, selectVars, extractVars, keyVars, regexVars, contentVars, binaryVars, rankVars, cacheVars, pathVars, releaseVars, feedVars, loopVars>>

NextOutput == GrepNoEntries \/ GrepJoinEntries

(***************************************************************************)
(* grep and read on the same archive: the files grep skips as binary are   *)
(* read by mcp_server.py read through get_file_content                     *)
(***************************************************************************)

\* The archive a grep call is scanning was opened with mode "r:": it is an
\* uncompressed tar, as the registry fetchers return it.
ScannedTarball == CHOOSE t \in {[compression |-> c] : c \in {"gz", "none"}} :
                        TarOpens(GrepOpenMode, t)

\* get_file_content on a regular file of the archive: _open_tarball, then
\* f.read().decode("utf-8", errors="replace"); a NUL byte decodes to U+0000.
FileContent(tarball, m) ==
    IF ~TarOpens(OpenTarballMode, tarball)
    THEN [exception |-> "ReadError", has_nul |-> FALSE]
    ELSE [exception |-> None, has_nul |-> m.nul # 0]

\* read, lines 431-434: the content, "Error: ..." for FileNotFoundError, and
\* any other exception leaves read.
ReadFileContent(found) ==
    IF found.exception = None THEN [kind |-> "content", has_nul |-> found.has_nul]
    ELSE IF found.exception = "FileNotFoundError" THEN [kind |-> "Error: ", has_nul |-> FALSE]
    ELSE [kind |-> "raised", has_nul |-> FALSE]

IdleBinaryVars ==
    bcall = [pc |-> "idle", tarball |-> NoTarball, member |-> 0, exception |-> None,
             response |-> [kind |-> None, has_nul |-> FALSE]]

InitBinaryVars ==
    bcall = [pc |-> "file", tarball |-> ScannedTarball, member |-> 0, exception |-> None,
             response |-> [kind |-> None, has_nul |-> FALSE]]

\* read(file_path) of member i of the archive the finished grep call searched.
ReadMember(i) ==
    /\ bcall.pc = "file"
    /\ gcall.pc = "done"
    /\ i \in 1..Len(gcall.members)
    /\ LET found == FileContent(bcall.tarball, gcall.members[i]) IN
       bcall' = [bcall EXCEPT !.pc = "done", !.member = i,
                              !.exception = found.exception,
                              !.response = ReadFileContent(found)]
    /\ UNCHANGED gcall
    /\ UNCHANGED <<commitVars, resolveVars, toolVars, readVars, globVars, countVars, archiveVars, selectVars, extractVars, keyVars, regexVars, contentVars, outputVars, rankVars, cacheVars, pathVars, releaseVars, feedVars, loopVars>>

NextBinary ==
    \/ GrepScanMember
    \/ GrepScanEnd
    \/ GrepFormat
    \/ \E i \in 1..MaxMembers : ReadMember(i)

(***************************************************************************)
(* Disambiguator: mcp_server.py _find_github_repos and                     *)
(* utils/github_readme.py get_readmes_for_repos, one call step by step, up *)
(* to the candidate its caller _resolve_source_code takes                  *)
(***************************************************************************)

\* What one get_github_readme call can come to: the README text, None (the
\* path has fewer than two segments, or the request answers 404), or the
\* ClientResponseError raise_for_status raises on any other failure status.
ReadmeOutcomes == {"content", None, "ClientResponseError"}

NotFetched == "pending"

\* The candidate lists extract_github_candidates can yield for the call.
RepoC == "https://github.com/e/f"

RankCandidateLists == {<<>>, <<RepoA>>, <<RepoA, RepoB>>, <<RepoA, RepoB, RepoC>>}

\* asyncio.gather(*tasks) without return_exceptions: the first exception a
\* task raises is propagated to the awaiter at once.
GatherRaises(fetch) == \E i \in DOMAIN fetch : fetch[i] = "ClientResponseError"

\* asyncio.gather has a result list once every task has returned.
GatherReturns(fetch) ==
    \A i \in DOMAIN fetch : fetch[i] \in {"content", None}

\* get_readmes_for_repos: [(url, content) for ... if content], the urls kept.
get_readmes_for_repos(repo_urls, fetch) ==
    ReposWithReadmes(repo_urls, {repo_urls[i] : i \in {k \in DOMAIN fetch : fetch[k] = "content"}})

IdleRankCall ==
    [pc |-> "idle", candidates |-> <<>>, fetch |-> <<>>, repos_with_readmes |-> <<>>,
     scored_repos |-> <<>>, result |-> <<>>, error |-> None, source_code |-> None]

IdleRankVars == fcall = IdleRankCall

InitRankVars ==
    fcall \in {[IdleRankCall EXCEPT !.pc = "extract", !.candidates = q] :
                  q \in RankCandidateLists}

\* candidates = extract_github_candidates(...); if not candidates: return [];
\* otherwise one get_github_readme task per candidate is started.
FindExtract ==
    /\ fcall.pc = "extract"
    /\ fcall' = IF fcall.candidates = <<>>
                THEN [fcall EXCEPT !.pc = "returned", !.result = <<>>]
                ELSE [fcall EXCEPT !.pc = "gather",
                                   !.fetch = [i \in DOMAIN fcall.candidates |-> NotFetched]]
    /\ UNCHANGED <<commitVars, resolveVars, grepVars, toolVars, readVars, globVars, countVars, archiveVars, selectVars, extractVars, keyVars, regexVars, contentVars, outputVars, binaryVars, cacheVars, pathVars, releaseVars, feedVars, loopVars>>

\* One get_github_readme task finishes, in any order with the others.
FindReadmeFetched(i, outcome) ==
    /\ fcall.pc = "gather"
    /\ i \in DOMAIN fcall.fetch
    /\ fcall.fetch[i] = NotFetched
    /\ fcall' = [fcall EXCEPT !.fetch[i] = outcome]
    /\ UNCHANGED <<commitVars, resolveVars, grepVars, toolVars, readVars, globVars, countVars, archiveVars, selectVars, extractVars, keyVars, regexVars, contentVars, outputVars, binaryVars, cacheVars, pathVars, releaseVars, feedVars, loopVars>>

\* await asyncio.gather(...) raises: the exception leaves
\* get_readmes_for_repos and _find_github_repos, which have no handler.
FindGatherRaises ==
    /\ fcall.pc = "gather"
    /\ GatherRaises(fcall.fetch)
    /\ fcall' = [fcall EXCEPT !.pc = "raised", !.error = "ClientResponseError"]
    /\ UNCHANGED <<commitVars, resolveVars, grepVars, toolVars, readVars, globVars, countVars, archiveVars, selectVars, extractVars, keyVars, regexVars, contentVars, outputVars, binaryVars, cacheVars, pathVars, releaseVars, feedVars, loopVars>>

\* await asyncio.gather(...) returns; the pairs with content are kept.
FindGatherReturns ==
    /\ fcall.pc = "gather"
    /\ ~GatherRaises(fcall.fetch)
    /\ GatherReturns(fcall.fetch)
    /\ fcall' = [fcall EXCEPT
            !.pc = "embed_description",
            !.repos_with_readmes = get_readmes_for_repos(fcall.candidates, fcall.fetch)]
    /\ UNCHANGED <<commitVars, resolveVars, grepVars, toolVars, readVars, globVars, countVars, archiveVars, selectVars, extractVars, keyVars, regexVars, contentVars, outputVars, binaryVars, cacheVars, pathVars, releaseVars, feedVars, loopVars>>

\* description_embedding = await embed_text(description): the request raises
\* on an error status.
FindEmbedDescription(ok) ==
    /\ fcall.pc = "embed_description"
    /\ fcall' = IF ok THEN [fcall EXCEPT !.pc = "score"]
                ELSE [fcall EXCEPT !.pc = "raised", !.error = "EmbeddingError"]
    /\ UNCHANGED <<commitVars, resolveVars, grepVars, toolVars, readVars, globVars, countVars, archiveVars, selectVars, extractVars, keyVars, regexVars, contentVars, outputVars, binaryVars, cacheVars, pathVars, releaseVars, feedVars, loopVars>>

\* One turn of the scoring loop: the README is embedded and its similarity to
\* the description appended.
FindScoreReadme(score) ==
    /\ fcall.pc = "score"
    /\ Len(fcall.scored_repos) < Len(fcall.repos_with_readmes)
    /\ fcall' = [fcall EXCEPT !.scored_repos =
            Append(@, [url |-> fcall.repos_with_readmes[Len(@) + 1], score |-> score])]
    /\ UNCHANGED <<commitVars, resolveVars, grepVars, toolVars, readVars, globVars, countVars, archiveVars, selectVars, extractVars, keyVars, regexVars, contentVars, outputVars, binaryVars, cacheVars, pathVars, releaseVars, feedVars, loopVars>>

\* embed_text(readme) raises inside the scoring loop.
FindScoreRaises ==
    /\ fcall.pc = "score"
    /\ Len(fcall.scored_repos) < Len(fcall.repos_with_readmes)
    /\ fcall' = [fcall EXCEPT !.pc = "raised", !.error = "EmbeddingError"]
    /\ UNCHANGED <<commitVars, resolveVars, grepVars, toolVars, readVars, globVars, countVars, archiveVars, selectVars, extractVars, keyVars, regexVars, contentVars, outputVars, binaryVars, cacheVars, pathVars, releaseVars, feedVars, loopVars>>

\* _find_github_repos returning the scored pairs as the loop appended them.
FindSortReturn_Unsorted ==
    /\ fcall.pc = "score"
    /\ Len(fcall.scored_repos) = Len(fcall.repos_with_readmes)
    /\ fcall' = [fcall EXCEPT !.pc = "returned", !.result = fcall.scored_repos]
    /\ UNCHANGED <<commitVars, resolveVars, grepVars, toolVars, readVars, globVars, countVars, archiveVars, selectVars, extractVars, keyVars, regexVars, contentVars, outputVars, binaryVars, cacheVars, pathVars, releaseVars, feedVars, loopVars>>

\* scored_repos.sort(key=score, reverse=True); return scored_repos.
FindSortReturn ==
    /\ fcall.pc = "score"
    /\ Len(fcall.scored_repos) = Len(fcall.repos_with_readmes)
    /\ fcall' = [fcall EXCEPT !.pc = "returned", !.result = SortDesc(fcall.scored_repos)]
    /\ UNCHANGED <<commitVars, resolveVars, grepVars, toolVars, readVars, globVars, countVars, archiveVars, selectVars, extractVars, keyVars, regexVars, contentVars, outputVars, binaryVars, cacheVars, pathVars, releaseVars, feedVars, loopVars>>

\* The caller, _resolve_source_code: if scored_repos, source_code is
\* scored_repos[0][0]; otherwise the package gets no source_code.
ResolveTakesFirst ==
    /\ fcall.pc = "returned"
    /\ fcall' = [fcall EXCEPT
            !.pc = "done",
            !.source_code = IF fcall.result # <<>> THEN fcall.result[1].url ELSE None]
    /\ UNCHANGED <<commitVars, resolveVars, grepVars, toolVars, readVars, globVars, countVars, archiveVars, selectVars, extractVars, keyVars, regexVars, contentVars, outputVars, binaryVars, cacheVars, pathVars, releaseVars, feedVars, loopVars>>

NextRank ==
    \/ FindExtract
    \/ \E i \in DOMAIN fcall.fetch : \E outcome \in ReadmeOutcomes : FindReadmeFetched(i, outcome)
    \/ FindGatherRaises
    \/ FindGatherReturns
    \/ \E ok \in BOOLEAN : FindEmbedDescription(ok)
    \/ \E score \in Scores : FindScoreReadme(score)
    \/ FindScoreRaises
    \/ FindSortReturn
    \/ ResolveTakesFirst

(***************************************************************************)
(* Memoizing decorators: utils/google_bucket.py gcs_cache, nfs_gcs_cache   *)
(***************************************************************************)

\* Bounds of the cache model: successive calls of cached functions with one
\* cache key, the last reading of time.time(), and the decorator's ttl on the
\* same scale.
NumCacheCalls == 2
MaxClock == 3
ttl == 2

Decorators == {"gcs_cache", "nfs_gcs_cache"}
StoredResult == "r0"
FreshResult == "r1"

\* What lies at the cache path of one tier: nothing, bytes that do not
\* decompress or unpickle to an entry, or an entry {result, timestamp}.
NoBlob == [form |-> "missing", timestamp |-> 0, result |-> None]
Garbage == [form |-> "garbage", timestamp |-> 0, result |-> None]
CacheEntry(result, timestamp) == [form |-> "entry", timestamp |-> timestamp, result |-> result]

Unread == [read |-> FALSE, ok |-> FALSE, blob |-> NoBlob, at |-> 0]

\* The try block of a tier: the read or download raises (ok is false, or the
\* object is missing), decompress or pickle.loads raises, or the entry is
\* loaded and served when time.time() - timestamp < ttl; every exception is
\* swallowed by `except Exception: pass`.
TierServes(ok, blob, now) ==
    ok /\ blob.form = "entry" /\ now - blob.timestamp < ttl

IdleCacheCall ==
    [calls |-> 0, pc |-> "idle", decorator |-> "gcs_cache", seen_nfs |-> Unread, seen_gcs |-> Unread,
     invoked |-> FALSE, computed |-> None, uploaded |-> "no", value |-> None, error |-> None]

IdleCacheVars ==
    /\ cache_store = [nfs |-> NoBlob, gcs |-> NoBlob]
    /\ clock = 0
    /\ wcall = IdleCacheCall

InitCacheVars ==
    /\ cache_store \in [nfs : {NoBlob, Garbage, CacheEntry(StoredResult, 0)},
                        gcs : {NoBlob, Garbage, CacheEntry(StoredResult, 0)}]
    /\ clock = 0
    /\ wcall = IdleCacheCall

\* time.time() moves on between any two steps.
CacheTick ==
    /\ clock < MaxClock
    /\ clock' = clock + 1
    /\ UNCHANGED <<cache_store, wcall, pathVars, releaseVars, feedVars, loopVars>>
    /\ UNCHANGED <<commitVars, resolveVars, grepVars, toolVars, readVars, globVars, countVars, archiveVars, selectVars, extractVars, keyVars, regexVars, contentVars, outputVars, binaryVars, rankVars, pathVars, releaseVars, feedVars, loopVars>>

\* A cached function is called (the previous call, if any, is over): the
\* wrapper of nfs_gcs_cache starts at the NFS file, that of gcs_cache at the
\* bucket.
CacheEnter(decorator) ==
    /\ wcall.pc \in {"idle", "done", "raised"}
    /\ wcall.calls < NumCacheCalls
    /\ wcall' = [IdleCacheCall EXCEPT
            !.calls = wcall.calls + 1,
            !.decorator = decorator,
            !.pc = IF decorator = "nfs_gcs_cache" THEN "nfs" ELSE "gcs"]
    /\ UNCHANGED <<cache_store, clock, pathVars, releaseVars, feedVars, loopVars>>
    /\ UNCHANGED <<commitVars, resolveVars, grepVars, toolVars, readVars, globVars, countVars, archiveVars, selectVars, extractVars, keyVars, regexVars, contentVars, outputVars, binaryVars, rankVars, pathVars, releaseVars, feedVars, loopVars>>

\* nfs_gcs_cache step 1: nfs_file.read_bytes(), decompress, pickle.loads, age.
CacheReadNfs(ok) ==
    /\ wcall.pc = "nfs"
    /\ LET blob == cache_store.nfs
           seen == [read |-> TRUE, ok |-> ok, blob |-> blob, at |-> clock] IN
       wcall' = IF TierServes(ok, blob, clock)
            THEN [wcall EXCEPT !.pc = "done", !.seen_nfs = seen, !.value = blob.result]
            ELSE [wcall EXCEPT !.pc = "gcs", !.seen_nfs = seen]
    /\ UNCHANGED <<cache_store, clock, pathVars, releaseVars, feedVars, loopVars>>
    /\ UNCHANGED <<commitVars, resolveVars, grepVars, toolVars, readVars, globVars, countVars, archiveVars, selectVars, extractVars, keyVars, regexVars, contentVars, outputVars, binaryVars, rankVars, pathVars, releaseVars, feedVars, loopVars>>

\* Both decorators: client.download, (decompress,) pickle.loads, age.
CacheReadGcs(ok) ==
    /\ wcall.pc = "gcs"
    /\ LET blob == cache_store.gcs
           seen == [read |-> TRUE, ok |-> ok, blob |-> blob, at |-> clock] IN
       wcall' = IF TierServes(ok, blob, clock)
            THEN [wcall EXCEPT !.pc = "done", !.seen_gcs = seen, !.value = blob.result]
            ELSE [wcall EXCEPT !.pc = "compute", !.seen_gcs = seen]
    /\ UNCHANGED <<cache_store, clock, pathVars, releaseVars, feedVars, loopVars>>
    /\ UNCHANGED <<commitVars, resolveVars, grepVars, toolVars, readVars, globVars, countVars, archiveVars, selectVars, extractVars, keyVars, regexVars, contentVars, outputVars, binaryVars, rankVars, pathVars, releaseVars, feedVars, loopVars>>

\* result = await func(*args, **kwargs): the wrapped function returns, or its
\* exception leaves the wrapper.
CacheCompute(returns) ==
    /\ wcall.pc = "compute"
    /\ wcall' = IF returns
            THEN [wcall EXCEPT !.pc = "upload", !.invoked = TRUE, !.computed = FreshResult]
            ELSE [wcall EXCEPT !.pc = "raised", !.invoked = TRUE, !.error = "FunctionError"]
    /\ UNCHANGED <<cache_store, clock, pathVars, releaseVars, feedVars, loopVars>>
    /\ UNCHANGED <<commitVars, resolveVars, grepVars, toolVars, readVars, globVars, countVars, archiveVars, selectVars, extractVars, keyVars, regexVars, contentVars, outputVars, binaryVars, rankVars, pathVars, releaseVars, feedVars, loopVars>>

\* pickle.dumps({result, timestamp: time.time()}); await client.upload(...);
\* return result.  The upload is not inside a try: when it raises, the
\* exception leaves the wrapper and the return is not reached.
CacheUpload(ok) ==
    /\ wcall.pc = "upload"
    /\ IF ok
       THEN /\ cache_store' = [cache_store EXCEPT !.gcs = CacheEntry(wcall.computed, clock)]
            /\ wcall' = [wcall EXCEPT !.pc = "done", !.uploaded = "yes", !.value = wcall.computed]
       ELSE /\ cache_store' = cache_store
            /\ wcall' = [wcall EXCEPT !.pc = "raised", !.uploaded = "failed", !.error = "UploadError"]
    /\ UNCHANGED clock
    /\ UNCHANGED <<commitVars, resolveVars, grepVars, toolVars, readVars, globVars, countVars, archiveVars, selectVars, extractVars, keyVars, regexVars, contentVars, outputVars, binaryVars, rankVars, pathVars, releaseVars, feedVars, loopVars>>

\* rclone copies the bucket object to the NFS mount.
CacheSyncToNfs ==
    /\ cache_store.gcs.form = "entry"
    /\ cache_store.nfs # cache_store.gcs
    /\ cache_store' = [cache_store EXCEPT !.nfs = cache_store.gcs]
    /\ UNCHANGED <<clock, wcall, pathVars, releaseVars, feedVars, loopVars>>
    /\ UNCHANGED <<commitVars, resolveVars, grepVars, toolVars, readVars, globVars, countVars, archiveVars, selectVars, extractVars, keyVars, regexVars, contentVars, outputVars, binaryVars, rankVars, pathVars, releaseVars, feedVars, loopVars>>

NextCache ==
    \/ CacheTick
    \/ CacheSyncToNfs
    \/ \E decorator \in Decorators : CacheEnter(decorator)
    \/ \E ok \in BOOLEAN : CacheReadNfs(ok)
    \/ \E ok \in BOOLEAN : CacheReadGcs(ok)
    \/ \E returns \in BOOLEAN : CacheCompute(returns)
    \/ \E ok \in BOOLEAN : CacheUpload(ok)

(***************************************************************************)
(* Archive strategy: mcp_server.py resolve_package from the resolved       *)
(* repository URL to the archive it returns, one call step by step         *)
(***************************************************************************)

PathEcosystems == {"pypi", "npm"}
CommitOutcomes == {"ok", "HTTPException", "ClientResponseError", "IntegrityError"}
FetchOutcomes == {"ok", "upstream_error", "no_sdist", "not_gzip"}

\* The registry fetcher of an ecosystem.
RegistryFetcher(ecosystem) ==
    IF ecosystem = "pypi" THEN "get_pypi_tarball" ELSE "get_npm_tarball"

RegistryFetchers == {RegistryFetcher(e) : e \in PathEcosystems}

IdlePathCall ==
    [pc |-> "idle", ecosystem |-> None, version |-> None, github_url |-> None,
     release |-> NoRelease, commit |-> None, fetch |-> None, attempted |-> {},
     exception |-> None, tarball |-> NoTarball, source_label |-> None,
     identifier |-> None]

IdlePathVars == pcall = IdlePathCall

InitPathVars ==
    pcall \in {[IdlePathCall EXCEPT !.pc = "source", !.ecosystem = e, !.version = v] :
                  e \in PathEcosystems, v \in {None, "1.0"}}

\* github_url = await _resolve_source_code(...): the stored or discovered
\* URL, or None.
PathResolveSource(github_url) ==
    /\ pcall.pc = "source"
    /\ pcall' = [pcall EXCEPT !.pc = "releases", !.github_url = github_url]
    /\ UNCHANGED <<commitVars, resolveVars, grepVars, toolVars, readVars, globVars, countVars, archiveVars, selectVars, extractVars, keyVars, regexVars, contentVars, outputVars, binaryVars, rankVars, cacheVars, releaseVars, feedVars, loopVars>>

\* _resolve_source_code raises (package not found, README or embedding
\* request failed).
PathResolveSourceRaises(exc) ==
    /\ pcall.pc = "source"
    /\ pcall' = [pcall EXCEPT !.pc = "raised", !.exception = exc]
    /\ UNCHANGED <<commitVars, resolveVars, grepVars, toolVars, readVars, globVars, countVars, archiveVars, selectVars, extractVars, keyVars, regexVars, contentVars, outputVars, binaryVars, rankVars, cacheVars, releaseVars, feedVars, loopVars>>

\* releases = await retrieve_by_package(...); if not releases: raise
\* ValueError; release = releases[0].
PathRelease(release) ==
    /\ pcall.pc = "releases"
    /\ pcall' = IF release = NoRelease
                THEN [pcall EXCEPT !.pc = "raised", !.exception = "ValueError"]
                ELSE [pcall EXCEPT !.release = release,
                                   !.pc = IF pcall.github_url # None THEN "commit"
                                          ELSE "registry"]
    /\ UNCHANGED <<commitVars, resolveVars, grepVars, toolVars, readVars, globVars, countVars, archiveVars, selectVars, extractVars, keyVars, regexVars, contentVars, outputVars, binaryVars, rankVars, cacheVars, releaseVars, feedVars, loopVars>>

\* if github_url: commit_sha = await get_commit_sha(...); an exception leaves
\* resolve_package.
PathCommit(outcome) ==
    /\ pcall.pc = "commit"
    /\ LET p == [pcall EXCEPT !.commit = outcome,
                              !.attempted = @ \cup {"get_commit_sha"}] IN
       pcall' = IF outcome = "ok"
                THEN [p EXCEPT !.pc = "get_tarball", !.identifier = "sha1"]
                ELSE [p EXCEPT !.pc = "raised", !.exception = outcome]
    /\ UNCHANGED <<commitVars, resolveVars, grepVars, toolVars, readVars, globVars, countVars, archiveVars, selectVars, extractVars, keyVars, regexVars, contentVars, outputVars, binaryVars, rankVars, cacheVars, releaseVars, feedVars, loopVars>>

\* get_tarball whose failure is answered with the registry fallback.
PathGetTarball_FallsBack(outcome) ==
    /\ pcall.pc = "get_tarball"
    /\ LET r == GetTarball([fetch |-> outcome])
           p == [pcall EXCEPT !.fetch = outcome, !.attempted = @ \cup {"get_tarball"}] IN
       pcall' = IF r.exception = None
                THEN [p EXCEPT !.pc = "returned", !.tarball = r.tarball,
                               !.source_label = r.source_label]
                ELSE [p EXCEPT !.pc = "registry"]
    /\ UNCHANGED <<commitVars, resolveVars, grepVars, toolVars, readVars, globVars, countVars, archiveVars, selectVars, extractVars, keyVars, regexVars, contentVars, outputVars, binaryVars, rankVars, cacheVars, releaseVars, feedVars, loopVars>>

\* tarball_bytes = await get_tarball(owner, repo, commit_sha, github_token);
\* return tarball_bytes, commit_sha, source_label.  An exception leaves
\* resolve_package.
PathGetTarball(outcome) ==
    /\ pcall.pc = "get_tarball"
    /\ LET r == GetTarball([fetch |-> outcome])
           p == [pcall EXCEPT !.fetch = outcome, !.attempted = @ \cup {"get_tarball"}] IN
       pcall' = IF r.exception = None
                THEN [p EXCEPT !.pc = "returned", !.tarball = r.tarball,
                               !.source_label = r.source_label]
                ELSE [p EXCEPT !.pc = "raised", !.exception = r.exception]
    /\ UNCHANGED <<commitVars, resolveVars, grepVars, toolVars, readVars, globVars, countVars, archiveVars, selectVars, extractVars, keyVars, regexVars, contentVars, outputVars, binaryVars, rankVars, cacheVars, releaseVars, feedVars, loopVars>>

\* Fallback: release_version = version or release.version; the registry
\* fetcher of the ecosystem.
PathRegistry(outcome) ==
    /\ pcall.pc = "registry"
    /\ LET r == IF pcall.ecosystem = "pypi" THEN GetPypiTarball([fetch |-> outcome])
                ELSE GetNpmTarball([fetch |-> outcome])
           p == [pcall EXCEPT !.fetch = outcome,
                              !.attempted = @ \cup {RegistryFetcher(pcall.ecosystem)},
                              !.identifier = IF pcall.version # None THEN pcall.version
                                             ELSE pcall.release.version] IN
       pcall' = IF r.exception = None
                THEN [p EXCEPT !.pc = "returned", !.tarball = r.tarball,
                               !.source_label = r.source_label]
                ELSE [p EXCEPT !.pc = "raised", !.exception = r.exception]
    /\ UNCHANGED <<commitVars, resolveVars, grepVars, toolVars, readVars, globVars, countVars, archiveVars, selectVars, extractVars, keyVars, regexVars, contentVars, outputVars, binaryVars, rankVars, cacheVars, releaseVars, feedVars, loopVars>>

NextPath ==
    \/ \E github_url \in {None, RepoA} : PathResolveSource(github_url)
    \/ \E exc \in {"HTTPException", "ClientResponseError"} : PathResolveSourceRaises(exc)
    \/ \E release \in ReleaseRows \cup {NoRelease} : PathRelease(release)
    \/ \E outcome \in CommitOutcomes : PathCommit(outcome)
    \/ \E outcome \in FetchOutcomes : PathGetTarball(outcome)
    \/ \E outcome \in FetchOutcomes : PathRegistry(outcome)

(***************************************************************************)
(* Releases: routes/v1/releases/repository.py upsert, and the commit that  *)
(* resolve_package pins to a release through its last_seen                 *)
(***************************************************************************)

ReleaseKeys == {"pypi", "npm"} \X Versions
SeenTimestamps == 1..MaxSeen

\* ReleaseInput as every caller builds it (ReleaseInput.from_release, the
\* releases webhook, NpmSyncService.upsert_packument): first_seen and
\* last_seen are both the timestamp of the upload seen.
ReleaseInput(key, timestamp) ==
    [ecosystem |-> key[1], version |-> key[2], first_seen |-> timestamp, last_seen |-> timestamp]

Least(a, b) == IF a <= b THEN a ELSE b
Greatest(a, b) == IF a >= b THEN a ELSE b

\* The rows of one (ecosystem, package, version); the package is fixed.
ReleasesOf(rows, key) == {r \in rows : r.ecosystem = key[1] /\ r.version = key[2]}

\* The rows the constraint unique_release puts in conflict with data.
unique_release(rows, data) == ReleasesOf(rows, <<data.ecosystem, data.version>>)

\* An upsert whose conflict branch overwrites both timestamps.
ReleaseRepositoryUpsert_Overwrite(rows, data) ==
    (rows \ unique_release(rows, data)) \cup {data}

\* ReleaseRepository.upsert: INSERT ... ON CONFLICT ON CONSTRAINT
\* unique_release DO UPDATE SET first_seen = least(first_seen, data.first_seen),
\* last_seen = greatest(last_seen, data.last_seen).  Yields the table.
ReleaseRepositoryUpsert(rows, data) ==
    IF unique_release(rows, data) = {} THEN rows \cup {data}
    ELSE (rows \ unique_release(rows, data))
            \cup {[r EXCEPT !.first_seen = Least(r.first_seen, data.first_seen),
                            !.last_seen = Greatest(r.last_seen, data.last_seen)] :
                     r \in unique_release(rows, data)}

\* The release a resolve call is made for, and its repository.
PinnedKey == <<"pypi", "1.0">>
PinnedUrl == "https://github.com/a/b"

\* The history of the repository: one commit lands at each time, and it never
\* changes afterwards.
CommitAt(time) == IF time = 1 THEN "sha1" ELSE "sha2"

\* GET /repos/{owner}/{repo}/commits?until=timestamp&per_page=1 on that
\* history: the most recent commit at or before the timestamp.
CommitsUntil(timestamp) ==
    [status |-> "ok", commits |-> <<[sha |-> CommitAt(timestamp)]>>]

IdleReleaseVars ==
    /\ releases = {}
    /\ upserts = [k \in ReleaseKeys |-> {}]

InitReleaseVars == IdleReleaseVars

\* One upsert of a release, committed by its caller.
ReleaseUpsert(key, timestamp) ==
    /\ releases' = ReleaseRepositoryUpsert(releases, ReleaseInput(key, timestamp))
    /\ upserts' = [upserts EXCEPT ![key] = @ \cup {timestamp}]
    /\ UNCHANGED <<commitVars, resolveVars, grepVars, toolVars, readVars, globVars, countVars, archiveVars, selectVars, extractVars, keyVars, regexVars, contentVars, outputVars, binaryVars, rankVars, cacheVars, pathVars, feedVars, loopVars>>

\* resolve_package on the GitHub path: release = releases[0], then
\* get_commit_sha(github_url, timestamp=release.last_seen) up to its cache read.
PinResolve(c) ==
    \E release \in ReleasesOf(releases, PinnedKey) :
        GetCommitSha_Retrieve(c, PinnedUrl, release.last_seen)

\* get_commit_sha on a miss: the upstream query for the call's timestamp,
\* answered from the history or with an error status.
PinQuery(c) ==
    \E response \in {CommitsUntil(ccall[c].timestamp), [status |-> "error", commits |-> <<>>]} :
        GetCommitSha_Query(c, response)

NextUpsert == \E key \in ReleaseKeys, timestamp \in SeenTimestamps : ReleaseUpsert(key, timestamp)

NextPin ==
    \/ \E timestamp \in SeenTimestamps : ReleaseUpsert(PinnedKey, timestamp)
    \/ \E c \in CommitCalls :
        \/ PinResolve(c)
        \/ PinQuery(c)
        \/ GetCommitSha_Create(c)

(***************************************************************************)
(* npm sync function: functions/npm-sync/main.py npm_sync, run after run   *)
(***************************************************************************)

\* Bounds of the function model: the length of the changes feed, the number
\* of runs, and settings.CHANGES_BATCH_SIZE (500) and
\* settings.MAX_PACKAGES_PER_RUN (200) scaled down with their order kept.
FeedLen == 4
NumSyncRuns == 2
ChangesBatchSize == 3
MaxPackagesPerRun == 2

\* Document ids of the registry: package names and a design document.
DesignDoc == "_design/app"
FeedIds == {"pkg-a", "pkg-b", "pkg-c", "pkg-d", DesignDoc}

\* r["id"].startswith("_design/")
IsDesignDoc(id) == id = DesignDoc

Min2(a, b) == IF a <= b THEN a ELSE b

\* GET _changes?since=..&limit=..: the sequence numbers of the results, and
\* last_seq, the sequence number of the last one (since itself when there is
\* none).  The change with sequence number i is changes[i].
FetchChanges(feed, since, limit) ==
    [results |-> (since + 1)..Min2(since + limit, Len(feed)),
     last_seq |-> Min2(since + limit, Len(feed))]

\* {r["id"] for r in results if not r["id"].startswith("_design/")}
PackageNames(feed, results) == {feed[i] : i \in {k \in results : ~IsDesignDoc(feed[k])}}

\* list(set)[:MAX_PACKAGES_PER_RUN]: a set has no order the code controls, so
\* any MAX_PACKAGES_PER_RUN of the names can be the ones kept.
CappedPackageNames(names) ==
    IF Cardinality(names) > MaxPackagesPerRun
    THEN {s \in SUBSET names : Cardinality(s) = MaxPackagesPerRun}
    ELSE {names}

IdleSyncCall ==
    [pc |-> "idle", run |-> 0, since |-> 0, results |-> {}, new_last_seq |-> 0,
     package_names |-> {}, all_rows |-> FALSE, error |-> None]

IdleFeedVars ==
    /\ changes = <<>>
    /\ last_seq = 0
    /\ fetched = {}
    /\ ncall = IdleSyncCall

InitFeedVars ==
    /\ changes \in [1..FeedLen -> FeedIds]
    /\ last_seq = 0
    /\ fetched = {}
    /\ ncall = IdleSyncCall

\* Cloud Scheduler triggers a run: last_seq = load_last_seq(...), which
\* answers "0" when the state blob cannot be read.
SyncLoad(ok) ==
    /\ ncall.pc \in {"idle", "returned", "raised"}
    /\ ncall.run < NumSyncRuns
    /\ ncall' = [IdleSyncCall EXCEPT !.pc = "changes", !.run = ncall.run + 1,
                                     !.since = IF ok THEN last_seq ELSE 0]
    /\ UNCHANGED <<changes, last_seq, fetched, loopVars>>
    /\ UNCHANGED <<commitVars, resolveVars, grepVars, toolVars, readVars, globVars, countVars, archiveVars, selectVars, extractVars, keyVars, regexVars, contentVars, outputVars, binaryVars, rankVars, cacheVars, pathVars, releaseVars, loopVars>>

\* changes_data = fetch_changes(...); if not results: return; the names are
\* deduplicated and capped.
SyncFetchChanges(ok, kept) ==
    /\ ncall.pc = "changes"
    /\ LET data == FetchChanges(changes, ncall.since, ChangesBatchSize) IN
       /\ kept \in CappedPackageNames(PackageNames(changes, data.results))
       /\ ncall' = IF ~ok THEN [ncall EXCEPT !.pc = "raised", !.error = "HTTPError"]
                   ELSE IF data.results = {}
                   THEN [ncall EXCEPT !.pc = "returned", !.new_last_seq = data.last_seq]
                   ELSE [ncall EXCEPT !.pc = "packuments", !.results = data.results,
                                      !.new_last_seq = data.last_seq,
                                      !.package_names = kept]
    /\ UNCHANGED <<changes, last_seq, fetched, loopVars>>
    /\ UNCHANGED <<commitVars, resolveVars, grepVars, toolVars, readVars, globVars, countVars, archiveVars, selectVars, extractVars, keyVars, regexVars, contentVars, outputVars, binaryVars, rankVars, cacheVars, pathVars, releaseVars, loopVars>>

\* The thread pool: fetch_packument is submitted for every kept name (each
\* answers a packument, None on 404 or a request error); rows are collected.
SyncFetchPackuments(rows) ==
    /\ ncall.pc = "packuments"
    /\ rows => ncall.package_names # {}
    /\ fetched' = fetched \cup {i \in ncall.results : changes[i] \in ncall.package_names}
    /\ ncall' = [ncall EXCEPT !.pc = "upload", !.all_rows = rows]
    /\ UNCHANGED <<changes, last_seq, loopVars>>
    /\ UNCHANGED <<commitVars, resolveVars, grepVars, toolVars, readVars, globVars, countVars, archiveVars, selectVars, extractVars, keyVars, regexVars, contentVars, outputVars, binaryVars, rankVars, cacheVars, pathVars, releaseVars, loopVars>>

\* if all_rows: upload_csv_to_gcs(...), which raises when the upload fails.
SyncUpload(ok) ==
    /\ ncall.pc = "upload"
    /\ ncall' = IF ncall.all_rows /\ ~ok
                THEN [ncall EXCEPT !.pc = "raised", !.error = "UploadError"]
                ELSE [ncall EXCEPT !.pc = "save"]
    /\ UNCHANGED <<changes, last_seq, fetched, loopVars>>
    /\ UNCHANGED <<commitVars, resolveVars, grepVars, toolVars, readVars, globVars, countVars, archiveVars, selectVars, extractVars, keyVars, regexVars, contentVars, outputVars, binaryVars, rankVars, cacheVars, pathVars, releaseVars, loopVars>>

\* save_last_seq(storage_client, new_last_seq); return.
SyncSave(ok) ==
    /\ ncall.pc = "save"
    /\ IF ok
       THEN /\ last_seq' = ncall.new_last_seq
            /\ ncall' = [ncall EXCEPT !.pc = "returned"]
       ELSE /\ last_seq' = last_seq
            /\ ncall' = [ncall EXCEPT !.pc = "raised", !.error = "UploadError"]
    /\ UNCHANGED <<changes, fetched, loopVars>>
    /\ UNCHANGED <<commitVars, resolveVars, grepVars, toolVars, readVars, globVars, countVars, archiveVars, selectVars, extractVars, keyVars, regexVars, contentVars, outputVars, binaryVars, rankVars, cacheVars, pathVars, releaseVars, loopVars>>

NextFeed ==
    \/ \E ok \in BOOLEAN : SyncLoad(ok)
    \/ \E ok \in BOOLEAN, kept \in SUBSET FeedIds : SyncFetchChanges(ok, kept)
    \/ \E rows \in BOOLEAN : SyncFetchPackuments(rows)
    \/ \E ok \in BOOLEAN : SyncUpload(ok)
    \/ \E ok \in BOOLEAN : SyncSave(ok)

(***************************************************************************)
(* npm sync loop: routes/v1/npm_sync/router.py _run_sync_loop, with        *)
(* NpmChangesStream, PackageRepository.register and retrieve_unprocessed,  *)
(* KvStoreRepository.upsert and NpmSyncService.upsert_packument            *)
(***************************************************************************)

\* Bounds of the loop model: the length of the changes feed, the limit of one
\* _changes request (10000, scaled down), the restarts of the process, and the
\* transient failures of packument requests.
LoopFeedLen == 3
StreamLimit == 2
NumRestarts == 2
MaxFetchFailures == 1

LoopPackages == {"pkg-a", "pkg-b", "pkg-c"}
LoopFeedIds == LoopPackages \cup {DesignDoc}

\* DBPackage.first_seen IS NULL.
NoTimestamp == 0

\* A row of table packages as register inserts it, and once processed.
RegisteredRow(name) == [package_name |-> name, first_seen |-> NoTimestamp]
ProcessedRow(name) == [package_name |-> name, first_seen |-> 1]

\* The rows the constraint unique_package puts in conflict with a name.
unique_package(rows, name) == {r \in rows : r.package_name = name}

\* register written as an upsert that resets the row.
PackageRepositoryRegister_Overwrite(rows, name) ==
    (rows \ unique_package(rows, name)) \cup {RegisteredRow(name)}

\* PackageRepository.register: INSERT ... ON CONFLICT ON CONSTRAINT
\* unique_package DO NOTHING.  Yields the table.
PackageRepositoryRegister(rows, name) ==
    IF unique_package(rows, name) = {} THEN rows \cup {RegisteredRow(name)} ELSE rows

\* for name in names: await service.register("npm", name, commit=False)
RECURSIVE RegisterAll(_, _)
RegisterAll(rows, names) ==
    IF names = {} THEN rows
    ELSE LET name == CHOOSE n \in names : TRUE IN
         RegisterAll(PackageRepositoryRegister(rows, name), names \ {name})

\* PackageRepository.retrieve_unprocessed: the names with first_seen IS NULL
\* (the limit of 100 is above the number of packages here).
retrieve_unprocessed(rows) == {r.package_name : r \in {x \in rows : x.first_seen = NoTimestamp}}

IdleLoopCall ==
    [pc |-> "idle", since |-> 0, names |-> {}, pending |-> {}, restarts |-> 0,
     failures |-> 0, error |-> None]

IdleLoopVars ==
    /\ packages = {}
    /\ kv_store = 0
    /\ registry = [changes |-> <<>>, status |-> [p \in LoopPackages |-> "published"]]
    /\ lcall = IdleLoopCall

\* Phase 1 starts with a feed to walk; the table may hold a package that an
\* earlier run processed.
InitRegisterVars ==
    /\ packages \in {{}, {ProcessedRow("pkg-a")}}
    /\ kv_store = 0
    /\ registry \in [changes : [1..LoopFeedLen -> LoopFeedIds],
                     status : {[p \in LoopPackages |-> "published"]}]
    /\ lcall = IdleLoopCall

\* Phase 2 starts with registered packages, some processed, and a registry
\* in which a package is published, gone (404) or unpublished.
InitProcessVars ==
    /\ packages \in {rows \in SUBSET ({RegisteredRow(p) : p \in LoopPackages}
                                        \cup {ProcessedRow(p) : p \in LoopPackages}) :
                        \A r1, r2 \in rows : r1.package_name = r2.package_name => r1 = r2}
    /\ kv_store = 0
    /\ registry \in [changes : {<<>>},
                     status : [LoopPackages -> {"published", "missing", "unpublished"}]]
    /\ lcall = [IdleLoopCall EXCEPT !.pc = "phase2"]

\* async with NpmChangesStream() as stream: restore() reads the persisted
\* cursor, "0" when the key is not there.
StreamRestore ==
    /\ lcall.pc = "idle"
    /\ lcall' = [lcall EXCEPT !.pc = "next", !.since = kv_store]
    /\ UNCHANGED <<packages, kv_store, registry>>
    /\ UNCHANGED <<commitVars, resolveVars, grepVars, toolVars, readVars, globVars, countVars, archiveVars, selectVars, extractVars, keyVars, regexVars, contentVars, outputVars, binaryVars, rankVars, cacheVars, pathVars, releaseVars, feedVars>>

\* __anext__: GET _changes?since=..&limit=..; names are the ids that are not
\* design documents; self.since = last_seq; no names ends the iteration.  A
\* failed request raises into _run_sync_loop's handler.
StreamNext(ok) ==
    /\ lcall.pc = "next"
    /\ LET data == FetchChanges(registry.changes, lcall.since, StreamLimit)
           names == PackageNames(registry.changes, data.results) IN
       lcall' = IF ~ok THEN [lcall EXCEPT !.pc = "crashed", !.error = "ClientResponseError"]
                ELSE IF names = {}
                THEN [lcall EXCEPT !.pc = "phase2", !.since = data.last_seq, !.names = {}]
                ELSE [lcall EXCEPT !.pc = "register", !.since = data.last_seq, !.names = names]
    /\ UNCHANGED <<packages, kv_store, registry>>
    /\ UNCHANGED <<commitVars, resolveVars, grepVars, toolVars, readVars, globVars, countVars, archiveVars, selectVars, extractVars, keyVars, regexVars, contentVars, outputVars, binaryVars, rankVars, cacheVars, pathVars, releaseVars, feedVars>>

\* The batch is registered in one transaction: register(..., commit=False)
\* for each name, then session.commit(); a failure rolls it back.
LoopRegister(ok) ==
    /\ lcall.pc = "register"
    /\ IF ok
       THEN /\ packages' = RegisterAll(packages, lcall.names)
            /\ lcall' = [lcall EXCEPT !.pc = "save"]
       ELSE /\ packages' = packages
            /\ lcall' = [lcall EXCEPT !.pc = "crashed", !.error = "DBAPIError"]
    /\ UNCHANGED <<kv_store, registry>>
    /\ UNCHANGED <<commitVars, resolveVars, grepVars, toolVars, readVars, globVars, countVars, archiveVars, selectVars, extractVars, keyVars, regexVars, contentVars, outputVars, binaryVars, rankVars, cacheVars, pathVars, releaseVars, feedVars>>

\* await stream.save(): KvStoreRepository.upsert(state_key, self.since).
StreamSave(ok) ==
    /\ lcall.pc = "save"
    /\ IF ok
       THEN /\ kv_store' = lcall.since
            /\ lcall' = [lcall EXCEPT !.pc = "next"]
       ELSE /\ kv_store' = kv_store
            /\ lcall' = [lcall EXCEPT !.pc = "crashed", !.error = "DBAPIError"]
    /\ UNCHANGED <<packages, registry>>
    /\ UNCHANGED <<commitVars, resolveVars, grepVars, toolVars, readVars, globVars, countVars, archiveVars, selectVars, extractVars, keyVars, regexVars, contentVars, outputVars, binaryVars, rankVars, cacheVars, pathVars, releaseVars, feedVars>>

\* The process stops at any point of phase 1 (the task is cancelled or the
\* loop has crashed) and is started again: the stream object is a new one.
LoopRestart ==
    /\ lcall.pc \in {"next", "register", "save", "crashed"}
    /\ lcall.restarts < NumRestarts
    /\ lcall' = [IdleLoopCall EXCEPT !.restarts = lcall.restarts + 1]
    /\ UNCHANGED <<packages, kv_store, registry>>
    /\ UNCHANGED <<commitVars, resolveVars, grepVars, toolVars, readVars, globVars, countVars, archiveVars, selectVars, extractVars, keyVars, regexVars, contentVars, outputVars, binaryVars, rankVars, cacheVars, pathVars, releaseVars, feedVars>>

\* while True: names = retrieve_unprocessed("npm"); if not names: break;
\* otherwise one _process_package task per name.
LoopRetrieveUnprocessed ==
    /\ lcall.pc = "phase2"
    /\ LET names == retrieve_unprocessed(packages) IN
       lcall' = IF names = {} THEN [lcall EXCEPT !.pc = "complete", !.names = {}]
                ELSE [lcall EXCEPT !.pc = "tasks", !.names = names, !.pending = names]
    /\ UNCHANGED <<packages, kv_store, registry>>
    /\ UNCHANGED <<commitVars, resolveVars, grepVars, toolVars, readVars, globVars, countVars, archiveVars, selectVars, extractVars, keyVars, regexVars, contentVars, outputVars, binaryVars, rankVars, cacheVars, pathVars, releaseVars, feedVars>>

\* _process_package: if resp.status == 404: return.
ProcessNotFound(name) ==
    /\ lcall.pc = "tasks"
    /\ name \in lcall.pending
    /\ registry.status[name] = "missing"
    /\ lcall' = [lcall EXCEPT !.pending = @ \ {name}]
    /\ UNCHANGED <<packages, kv_store, registry>>
    /\ UNCHANGED <<commitVars, resolveVars, grepVars, toolVars, readVars, globVars, countVars, archiveVars, selectVars, extractVars, keyVars, regexVars, contentVars, outputVars, binaryVars, rankVars, cacheVars, pathVars, releaseVars, feedVars>>

\* _process_package: the request or the upsert raises; except Exception logs
\* a warning.
ProcessFails(name) ==
    /\ lcall.pc = "tasks"
    /\ name \in lcall.pending
    /\ registry.status[name] # "missing"
    /\ lcall.failures < MaxFetchFailures
    /\ lcall' = [lcall EXCEPT !.pending = @ \ {name}, !.failures = @ + 1]
    /\ UNCHANGED <<packages, kv_store, registry>>
    /\ UNCHANGED <<commitVars, resolveVars, grepVars, toolVars, readVars, globVars, countVars, archiveVars, selectVars, extractVars, keyVars, regexVars, contentVars, outputVars, binaryVars, rankVars, cacheVars, pathVars, releaseVars, feedVars>>

\* NpmSyncService.upsert_packument: an unpublished packument deletes the
\* package; otherwise the package is upserted with first_seen = the earliest
\* of its versions.
ProcessUpsertPackument(name) ==
    /\ lcall.pc = "tasks"
    /\ name \in lcall.pending
    /\ registry.status[name] # "missing"
    /\ packages' = IF registry.status[name] = "unpublished"
                   THEN packages \ unique_package(packages, name)
                   ELSE (packages \ unique_package(packages, name)) \cup {ProcessedRow(name)}
    /\ lcall' = [lcall EXCEPT !.pending = @ \ {name}]
    /\ UNCHANGED <<kv_store, registry>>
    /\ UNCHANGED <<commitVars, resolveVars, grepVars, toolVars, readVars, globVars, countVars, archiveVars, selectVars, extractVars, keyVars, regexVars, contentVars, outputVars, binaryVars, rankVars, cacheVars, pathVars, releaseVars, feedVars>>

\* async with asyncio.TaskGroup(): every task of the batch is over.
LoopTasksDone ==
    /\ lcall.pc = "tasks"
    /\ lcall.pending = {}
    /\ lcall' = [lcall EXCEPT !.pc = "phase2"]
    /\ UNCHANGED <<packages, kv_store, registry>>
    /\ UNCHANGED <<commitVars, resolveVars, grepVars, toolVars, readVars, globVars, countVars, archiveVars, selectVars, extractVars, keyVars, regexVars, contentVars, outputVars, binaryVars, rankVars, cacheVars, pathVars, releaseVars, feedVars>>

NextRegister ==
    \/ StreamRestore
    \/ \E ok \in BOOLEAN : StreamNext(ok)
    \/ \E ok \in BOOLEAN : LoopRegister(ok)
    \/ \E ok \in BOOLEAN : StreamSave(ok)
    \/ LoopRestart

NextProcess ==
    \/ LoopRetrieveUnprocessed
    \/ \E name \in LoopPackages : ProcessNotFound(name)
    \/ \E name \in LoopPackages : ProcessFails(name)
    \/ \E name \in LoopPackages : ProcessUpsertPackument(name)
    \/ LoopTasksDone

(***************************************************************************)
(* Specifications                                                          *)
(***************************************************************************)

InitCommit == InitCommitVars /\ IdleResolveVars /\ IdleGrepVars /\ IdleToolVars /\ IdleReadVars /\ IdleGlobVars /\ IdleCountVars /\ IdleArchiveVars /\ IdleSelectVars /\ IdleExtractVars /\ IdleKeyVars /\ IdleRegexVars /\ IdleContentVars /\ IdleOutputVars /\ IdleBinaryVars /\ IdleRankVars /\ IdleCacheVars /\ IdlePathVars /\ IdleReleaseVars /\ IdleFeedVars /\ IdleLoopVars

SpecCommit == InitCommit /\ [][NextCommit]_vars

InitResolve == InitResolveVars /\ InitCommitVars /\ IdleGrepVars /\ IdleToolVars /\ IdleReadVars /\ IdleGlobVars /\ IdleCountVars /\ IdleArchiveVars /\ IdleSelectVars /\ IdleExtractVars /\ IdleKeyVars /\ IdleRegexVars /\ IdleContentVars /\ IdleOutputVars /\ IdleBinaryVars /\ IdleRankVars /\ IdleCacheVars /\ IdlePathVars /\ IdleReleaseVars /\ IdleFeedVars /\ IdleLoopVars

SpecResolve == InitResolve /\ [][NextResolve]_vars

InitGrep == InitGrepVars /\ InitCommitVars /\ IdleResolveVars /\ IdleToolVars /\ IdleReadVars /\ IdleGlobVars /\ IdleCountVars /\ IdleArchiveVars /\ IdleSelectVars /\ IdleExtractVars /\ IdleKeyVars /\ IdleRegexVars /\ IdleContentVars /\ IdleOutputVars /\ IdleBinaryVars /\ IdleRankVars /\ IdleCacheVars /\ IdlePathVars /\ IdleReleaseVars /\ IdleFeedVars /\ IdleLoopVars

SpecGrep == InitGrep /\ [][NextGrep]_vars

InitTool == IdleToolVars /\ InitCommitVars /\ IdleResolveVars /\ IdleGrepVars /\ IdleReadVars /\ IdleGlobVars /\ IdleCountVars /\ IdleArchiveVars /\ IdleSelectVars /\ IdleExtractVars /\ IdleKeyVars /\ IdleRegexVars /\ IdleContentVars /\ IdleOutputVars /\ IdleBinaryVars /\ IdleRankVars /\ IdleCacheVars /\ IdlePathVars /\ IdleReleaseVars /\ IdleFeedVars /\ IdleLoopVars

SpecTool == InitTool /\ [][NextTool]_vars

InitRead == InitReadVars /\ InitCommitVars /\ IdleResolveVars /\ IdleGrepVars /\ IdleToolVars /\ IdleGlobVars /\ IdleCountVars /\ IdleArchiveVars /\ IdleSelectVars /\ IdleExtractVars /\ IdleKeyVars /\ IdleRegexVars /\ IdleContentVars /\ IdleOutputVars /\ IdleBinaryVars /\ IdleRankVars /\ IdleCacheVars /\ IdlePathVars /\ IdleReleaseVars /\ IdleFeedVars /\ IdleLoopVars

SpecRead == InitRead /\ [][NextRead]_vars

InitGlob == InitGlobVars /\ InitCommitVars /\ IdleResolveVars /\ IdleGrepVars /\ IdleToolVars /\ IdleReadVars /\ IdleCountVars /\ IdleArchiveVars /\ IdleSelectVars /\ IdleExtractVars /\ IdleKeyVars /\ IdleRegexVars /\ IdleContentVars /\ IdleOutputVars /\ IdleBinaryVars /\ IdleRankVars /\ IdleCacheVars /\ IdlePathVars /\ IdleReleaseVars /\ IdleFeedVars /\ IdleLoopVars

SpecGlob == InitGlob /\ [][NextGlob]_vars

InitCount == InitCountVars /\ InitCommitVars /\ IdleResolveVars /\ IdleGrepVars /\ IdleToolVars /\ IdleReadVars /\ IdleGlobVars /\ IdleArchiveVars /\ IdleSelectVars /\ IdleExtractVars /\ IdleKeyVars /\ IdleRegexVars /\ IdleContentVars /\ IdleOutputVars /\ IdleBinaryVars /\ IdleRankVars /\ IdleCacheVars /\ IdlePathVars /\ IdleReleaseVars /\ IdleFeedVars /\ IdleLoopVars

SpecCount == InitCount /\ [][NextCount]_vars

InitArchive == InitArchiveVars /\ InitCommitVars /\ IdleResolveVars /\ IdleGrepVars /\ IdleToolVars /\ IdleReadVars /\ IdleGlobVars /\ IdleCountVars /\ IdleSelectVars /\ IdleExtractVars /\ IdleKeyVars /\ IdleRegexVars /\ IdleContentVars /\ IdleOutputVars /\ IdleBinaryVars /\ IdleRankVars /\ IdleCacheVars /\ IdlePathVars /\ IdleReleaseVars /\ IdleFeedVars /\ IdleLoopVars

SpecArchive == InitArchive /\ [][NextArchive]_vars

InitSelect == InitSelectVars /\ InitCommitVars /\ IdleResolveVars /\ IdleGrepVars /\ IdleToolVars /\ IdleReadVars /\ IdleGlobVars /\ IdleCountVars /\ IdleArchiveVars /\ IdleExtractVars /\ IdleKeyVars /\ IdleRegexVars /\ IdleContentVars /\ IdleOutputVars /\ IdleBinaryVars /\ IdleRankVars /\ IdleCacheVars /\ IdlePathVars /\ IdleReleaseVars /\ IdleFeedVars /\ IdleLoopVars

SpecSelect == InitSelect /\ [][NextSelect]_vars

InitExtract == InitExtractVars /\ InitCommitVars /\ IdleResolveVars /\ IdleGrepVars /\ IdleToolVars /\ IdleReadVars /\ IdleGlobVars /\ IdleCountVars /\ IdleArchiveVars /\ IdleSelectVars /\ IdleKeyVars /\ IdleRegexVars /\ IdleContentVars /\ IdleOutputVars /\ IdleBinaryVars /\ IdleRankVars /\ IdleCacheVars /\ IdlePathVars /\ IdleReleaseVars /\ IdleFeedVars /\ IdleLoopVars

SpecExtract == InitExtract /\ [][NextExtract]_vars

InitKey == InitKeyVars /\ InitCommitVars /\ IdleResolveVars /\ IdleGrepVars /\ IdleToolVars /\ IdleReadVars /\ IdleGlobVars /\ IdleCountVars /\ IdleArchiveVars /\ IdleSelectVars /\ IdleExtractVars /\ IdleRegexVars /\ IdleContentVars /\ IdleOutputVars /\ IdleBinaryVars /\ IdleRankVars /\ IdleCacheVars /\ IdlePathVars /\ IdleReleaseVars /\ IdleFeedVars /\ IdleLoopVars

SpecKey == InitKey /\ [][NextKey]_vars

InitRegex == InitRegexVars /\ InitCommitVars /\ IdleResolveVars /\ IdleGrepVars /\ IdleToolVars /\ IdleReadVars /\ IdleGlobVars /\ IdleCountVars /\ IdleArchiveVars /\ IdleSelectVars /\ IdleExtractVars /\ IdleKeyVars /\ IdleContentVars /\ IdleOutputVars /\ IdleBinaryVars /\ IdleRankVars /\ IdleCacheVars /\ IdlePathVars /\ IdleReleaseVars /\ IdleFeedVars /\ IdleLoopVars

SpecRegex == InitRegex /\ [][NextRegex]_vars

InitContent == InitContentVars /\ InitCommitVars /\ IdleResolveVars /\ IdleGrepVars /\ IdleToolVars /\ IdleReadVars /\ IdleGlobVars /\ IdleCountVars /\ IdleArchiveVars /\ IdleSelectVars /\ IdleExtractVars /\ IdleKeyVars /\ IdleRegexVars /\ IdleOutputVars /\ IdleBinaryVars /\ IdleRankVars /\ IdleCacheVars /\ IdlePathVars /\ IdleReleaseVars /\ IdleFeedVars /\ IdleLoopVars

SpecContent == InitContent /\ [][NextContent]_vars

InitOutput == InitOutputVars /\ InitCommitVars /\ IdleResolveVars /\ IdleGrepVars /\ IdleToolVars /\ IdleReadVars /\ IdleGlobVars /\ IdleCountVars /\ IdleArchiveVars /\ IdleSelectVars /\ IdleExtractVars /\ IdleKeyVars /\ IdleRegexVars /\ IdleContentVars /\ IdleBinaryVars /\ IdleRankVars /\ IdleCacheVars /\ IdlePathVars /\ IdleReleaseVars /\ IdleFeedVars /\ IdleLoopVars

SpecOutput == InitOutput /\ [][NextOutput]_vars

InitBinary == InitBinaryVars /\ InitCommitVars /\ IdleResolveVars /\ InitGrepVars /\ IdleToolVars /\ IdleReadVars /\ IdleGlobVars /\ IdleCountVars /\ IdleArchiveVars /\ IdleSelectVars /\ IdleExtractVars /\ IdleKeyVars /\ IdleRegexVars /\ IdleContentVars /\ IdleOutputVars /\ IdleRankVars /\ IdleCacheVars /\ IdlePathVars /\ IdleReleaseVars /\ IdleFeedVars /\ IdleLoopVars

SpecBinary == InitBinary /\ [][NextBinary]_vars

InitRank == InitRankVars /\ InitCommitVars /\ IdleResolveVars /\ IdleGrepVars /\ IdleToolVars /\ IdleReadVars /\ IdleGlobVars /\ IdleCountVars /\ IdleArchiveVars /\ IdleSelectVars /\ IdleExtractVars /\ IdleKeyVars /\ IdleRegexVars /\ IdleContentVars /\ IdleOutputVars /\ IdleBinaryVars /\ IdleCacheVars /\ IdlePathVars /\ IdleReleaseVars /\ IdleFeedVars /\ IdleLoopVars

SpecRank == InitRank /\ [][NextRank]_vars

InitCache == InitCacheVars /\ InitCommitVars /\ IdleResolveVars /\ IdleGrepVars /\ IdleToolVars /\ IdleReadVars /\ IdleGlobVars /\ IdleCountVars /\ IdleArchiveVars /\ IdleSelectVars /\ IdleExtractVars /\ IdleKeyVars /\ IdleRegexVars /\ IdleContentVars /\ IdleOutputVars /\ IdleBinaryVars /\ IdleRankVars /\ IdlePathVars /\ IdleReleaseVars /\ IdleFeedVars /\ IdleLoopVars

SpecCache == InitCache /\ [][NextCache]_vars

InitPath == InitPathVars /\ InitCommitVars /\ IdleResolveVars /\ IdleGrepVars /\ IdleToolVars /\ IdleReadVars /\ IdleGlobVars /\ IdleCountVars /\ IdleArchiveVars /\ IdleSelectVars /\ IdleExtractVars /\ IdleKeyVars /\ IdleRegexVars /\ IdleContentVars /\ IdleOutputVars /\ IdleBinaryVars /\ IdleRankVars /\ IdleCacheVars /\ IdleReleaseVars /\ IdleFeedVars /\ IdleLoopVars

SpecPath == InitPath /\ [][NextPath]_vars

InitUpsert == InitReleaseVars /\ InitCommitVars /\ IdleResolveVars /\ IdleGrepVars /\ IdleToolVars /\ IdleReadVars /\ IdleGlobVars /\ IdleCountVars /\ IdleArchiveVars /\ IdleSelectVars /\ IdleExtractVars /\ IdleKeyVars /\ IdleRegexVars /\ IdleContentVars /\ IdleOutputVars /\ IdleBinaryVars /\ IdleRankVars /\ IdleCacheVars /\ IdlePathVars /\ IdleFeedVars /\ IdleLoopVars

SpecUpsert == InitUpsert /\ [][NextUpsert]_vars

InitPin == InitReleaseVars /\ InitCommitVars /\ IdleResolveVars /\ IdleGrepVars /\ IdleToolVars /\ IdleReadVars /\ IdleGlobVars /\ IdleCountVars /\ IdleArchiveVars /\ IdleSelectVars /\ IdleExtractVars /\ IdleKeyVars /\ IdleRegexVars /\ IdleContentVars /\ IdleOutputVars /\ IdleBinaryVars /\ IdleRankVars /\ IdleCacheVars /\ IdlePathVars /\ IdleFeedVars /\ IdleLoopVars

SpecPin == InitPin /\ [][NextPin]_vars

InitFeed == InitFeedVars /\ InitCommitVars /\ IdleResolveVars /\ IdleGrepVars /\ IdleToolVars /\ IdleReadVars /\ IdleGlobVars /\ IdleCountVars /\ IdleArchiveVars /\ IdleSelectVars /\ IdleExtractVars /\ IdleKeyVars /\ IdleRegexVars /\ IdleContentVars /\ IdleOutputVars /\ IdleBinaryVars /\ IdleRankVars /\ IdleCacheVars /\ IdlePathVars /\ IdleReleaseVars /\ IdleLoopVars

SpecFeed == InitFeed /\ [][NextFeed]_vars

InitRegister == InitRegisterVars /\ InitCommitVars /\ IdleResolveVars /\ IdleGrepVars /\ IdleToolVars /\ IdleReadVars /\ IdleGlobVars /\ IdleCountVars /\ IdleArchiveVars /\ IdleSelectVars /\ IdleExtractVars /\ IdleKeyVars /\ IdleRegexVars /\ IdleContentVars /\ IdleOutputVars /\ IdleBinaryVars /\ IdleRankVars /\ IdleCacheVars /\ IdlePathVars /\ IdleReleaseVars /\ IdleFeedVars

SpecRegister == InitRegister /\ [][NextRegister]_vars

InitProcess == InitProcessVars /\ InitCommitVars /\ IdleResolveVars /\ IdleGrepVars /\ IdleToolVars /\ IdleReadVars /\ IdleGlobVars /\ IdleCountVars /\ IdleArchiveVars /\ IdleSelectVars /\ IdleExtractVars /\ IdleKeyVars /\ IdleRegexVars /\ IdleContentVars /\ IdleOutputVars /\ IdleBinaryVars /\ IdleRankVars /\ IdleCacheVars /\ IdlePathVars /\ IdleReleaseVars /\ IdleFeedVars

\* The loop keeps running: a step that can be taken is taken.
SpecProcess == InitProcess /\ [][NextProcess]_vars /\ WF_vars(NextProcess)

(***************************************************************************)
(* Claims                                                                  *)
(***************************************************************************)

Last(q) == q[Len(q)]

\* C1: every failure met while glob, grep or read resolves and searches a
\* package ends in returned text that begins with "Error: "; no exception
\* leaves the tool function.
C1_FailuresBecomeErrorText ==
    /\ tcall.pc # "raised"
    /\ tcall.exception # None =>
            tcall.pc = "returned" /\ Head(tcall.response) = "Error: "

\* C2: whichever fetcher produced the archive (GitHub repository archive, PyPI
\* sdist, npm tarball), each of glob, grep and read opens it: no call ends in
\* tarfile's ReadError.
C2_EveryToolOpensEveryArchive ==
    tcall.tarball # NoTarball => tcall.exception # "ReadError"

\* C9: every response that is not an error ends with the provenance footer of
\* the snapshot that was searched.
C9_FooterOnEveryNonError ==
    (tcall.pc = "returned" /\ Head(tcall.response) # "Error: ")
        => Last(tcall.response) = tcall.source_label

\* The committed updates of the PackageRecord made by the resolver.
PackageWrites == Cardinality({c \in ResolveCalls : rcall[c].updated})

\* C3: a resolve call that finds the package already processed returns the
\* stored source_code (a URL or none) at once: it runs no candidate extraction,
\* no README fetch and no embedding, and leaves the PackageRecord as it is.
C3_ProcessedIsNotRetried ==
    [][\A c \in ResolveCalls :
        (rcall[c].pc = "idle" /\ rcall'[c].pc # "idle" /\ package.status = "processed")
        => /\ rcall'[c].pc = "done"
           /\ rcall'[c].result = package.source_code
           /\ ~rcall'[c].extracted /\ ~rcall'[c].readmes /\ ~rcall'[c].embedded
           /\ ~rcall'[c].updated
           /\ package' = package]_vars

\* A call answered from a processed package that has no source_code.
C3_Witness ==
    \E c \in ResolveCalls :
        /\ rcall[c].pc = "done" /\ ~rcall[c].extracted /\ ~rcall[c].updated
        /\ rcall[c].result = None
        /\ package.status = "processed" /\ package.source_code = None

\* C4: over any number of resolve calls for the package, concurrent ones
\* included, the resolver writes the PackageRecord exactly once.
C4_WrittenExactlyOnce ==
    /\ PackageWrites <= 1
    /\ package.status = "processed" => PackageWrites = 1

SameKey(c1, c2) ==
    /\ ccall[c1].github_url = ccall[c2].github_url
    /\ ccall[c1].timestamp = ccall[c2].timestamp

\* The calls other than c1 and c2 that were made for c1's key.
OtherCallsOnKey(c1, c2) ==
    {c3 \in CommitCalls \ {c1, c2} : ccall[c3].pc # "idle" /\ SameKey(c3, c1)}

\* C5: a get_commit_sha call made after an earlier call for the same
\* (url, timestamp) has returned is served from the commit cache: it returns
\* the same SHA and makes no upstream query; when these two are the only calls
\* for the key, upstream is queried exactly once in total.
C5_SecondCallIsCacheHit ==
    [][\A c2 \in CommitCalls : \A c1 \in CommitCalls \ {c2} :
        (/\ ccall[c2].pc = "idle" /\ ccall'[c2].pc # "idle"
         /\ ccall[c1].pc = "done"
         /\ ccall'[c2].github_url = ccall[c1].github_url
         /\ ccall'[c2].timestamp = ccall[c1].timestamp)
        => /\ ccall'[c2].pc = "done"
           /\ ccall'[c2].commit_sha = ccall[c1].commit_sha
           /\ ccall'[c2].queries = 0
           /\ (OtherCallsOnKey(c1, c2) = {}
                 => ccall[c1].queries + ccall'[c2].queries = 1)]_vars

C5_Witness ==
    \E c1 \in CommitCalls : \E c2 \in CommitCalls \ {c1} :
        /\ ccall[c1].pc = "done" /\ ccall[c2].pc = "done"
        /\ SameKey(c1, c2)
        /\ ccall[c1].queries = 1 /\ ccall[c2].queries = 0
        /\ ccall[c1].commit_sha = ccall[c2].commit_sha
        /\ OtherCallsOnKey(c1, c2) = {}

\* C6: two get_commit_sha calls for the same (url, timestamp) that both missed
\* the cache and both obtained the SHA from upstream both return successfully,
\* and the store holds exactly one entry for the key.
C6_BothRacersSucceed ==
    \A c1 \in CommitCalls : \A c2 \in CommitCalls \ {c1} :
        (/\ SameKey(c1, c2)
         /\ ccall[c1].queries = 1 /\ ccall[c2].queries = 1
         /\ ccall[c1].commit_sha # None /\ ccall[c2].commit_sha # None
         /\ ccall[c1].pc \in {"done", "failed"}
         /\ ccall[c2].pc \in {"done", "failed"})
        => /\ ccall[c1].pc = "done" /\ ccall[c2].pc = "done"
           /\ Cardinality(CommitCacheRows(ccall[c1].github_url, ccall[c1].timestamp)) = 1

C7_Unique ==
    \A url \in GithubUrls, ts \in Timestamps :
        Cardinality(CommitCacheRows(url, ts)) <= 1

C7_Step ==
    /\ \A r \in commit_cache : r \in commit_cache'
    /\ \A c \in CommitCalls :
        (/\ ccall[c].pc = "idle" /\ ccall'[c].pc # "idle"
         /\ CommitCacheRows(ccall'[c].github_url, ccall'[c].timestamp) # {})
        => /\ ccall'[c].pc = "done"
           /\ ccall'[c].queries = 0
           /\ \A r \in CommitCacheRows(ccall'[c].github_url, ccall'[c].timestamp) :
                 ccall'[c].commit_sha = r.commit_sha

\* C7: the commit cache never holds two entries for one (url, timestamp); no
\* step changes or removes an entry; a call made while the entry exists returns
\* the cached SHA without an upstream query, whatever upstream answers now.
C7_CacheAppendOnly == []C7_Unique /\ [][C7_Step]_vars

\* A hit on an entry while another caller holds a different SHA that upstream
\* gave it for the same key (the history changed between the two queries).
C7_Witness ==
    \E c \in CommitCalls : \E d \in CommitCalls \ {c} :
        /\ ccall[c].pc = "done" /\ ccall[c].queries = 0
        /\ SameKey(c, d)
        /\ ccall[d].queries = 1 /\ ccall[d].commit_sha \in Shas
        /\ ccall[d].commit_sha # ccall[c].commit_sha
        /\ \E r \in commit_cache : r.commit_sha = ccall[c].commit_sha /\ r.id # c

NoCommits == [status |-> "ok", commits |-> <<>>]

\* C8: on a miss where upstream lists no commit at or before the timestamp,
\* get_commit_sha fails with the 404 HTTPException, the cache is left as it
\* was, and the failed call never has an entry of its own in the cache.
C8_NotFoundLeavesCache ==
    /\ [][\A c \in CommitCalls :
            (ccall[c].pc = "query" /\ ccall'[c].pc # "query" /\ ccall'[c].commits = NoCommits)
            => /\ ccall'[c].pc = "failed"
               /\ ccall'[c].error = "HTTPException404"
               /\ commit_cache' = commit_cache]_vars
    /\ [](\A c \in CommitCalls :
            ccall[c].commits = NoCommits => \A r \in commit_cache : r.id # c)

C8_Witness ==
    \E c \in CommitCalls :
        /\ ccall[c].pc = "failed" /\ ccall[c].error = "HTTPException404"
        /\ ccall[c].commits = NoCommits
        /\ CommitCacheRows(ccall[c].github_url, ccall[c].timestamp) = {}

\* The entries of member i in the given mode, in match order.
MemberEntries(mode, mem, i) ==
    IF mem.nul \in 1..SAMPLE_SIZE \/ mem.matches = 0 THEN <<>>
    ELSE IF mode = "content"
    THEN [k \in 1..mem.matches |-> [file |-> i, match |-> k, count |-> 0]]
    ELSE IF mode = "count" THEN <<[file |-> i, match |-> 0, count |-> mem.matches]>>
    ELSE <<[file |-> i, match |-> 0, count |-> 0]>>

\* E: the full sequence of entries of the first n members, in archive order.
RECURSIVE AllEntries(_, _, _)
AllEntries(mode, members, n) ==
    IF n = 0 THEN <<>>
    ELSE AllEntries(mode, members, n - 1) \o MemberEntries(mode, members[n], n)

\* s[from : to] of Python, 0-based, clipped to the sequence.
Slice(s, from, to) ==
    LET hi == IF to < Len(s) THEN to ELSE Len(s)
    IN IF from >= hi THEN <<>> ELSE [j \in 1..(hi - from) |-> s[from + j]]

\* C10: when the scan loop of grep has ended, the kept entries are
\* E[offset : offset + head_limit] for head_limit > 0 and E[offset :] for
\* head_limit = 0, E being all entries in archive order; with a limit the
\* loop never sees more than offset + head_limit entries, and when E has that
\* many it stops at the member holding entry number offset + head_limit
\* without reading a later member.
C10_GrepPagination ==
    LET E == AllEntries(gcall.output_mode, gcall.members, Len(gcall.members))
        target == gcall.offset + gcall.head_limit
    IN /\ gcall.head_limit > 0 => gcall.entry_count <= target
       /\ gcall.pc \in {"format", "done"} =>
            /\ gcall.entries = IF gcall.head_limit > 0
                               THEN Slice(E, gcall.offset, target)
                               ELSE Slice(E, gcall.offset, Len(E))
            /\ (gcall.head_limit > 0 /\ Len(E) >= target) =>
                    /\ gcall.entry_count = target
                    /\ gcall.next - 1 = E[target].file
            /\ (gcall.head_limit = 0 \/ Len(E) < target) =>
                    /\ gcall.entry_count = Len(E)
                    /\ gcall.next - 1 = Len(gcall.members)

\* A content-mode call with an offset and a limit that stops inside a member,
\* leaving a later member with matches unread.
C10_Witness ==
    /\ gcall.pc = "done"
    /\ gcall.output_mode = "content"
    /\ gcall.offset > 0 /\ gcall.head_limit > 0
    /\ Len(gcall.entries) = gcall.head_limit
    /\ gcall.next <= Len(gcall.members)
    /\ gcall.members[gcall.next].matches > 0
    /\ gcall.members[gcall.next - 1].matches > gcall.entries[Len(gcall.entries)].match

C12_ReadSliceAndNumbers ==
    (readcall.pc = "done" /\ readcall.response.kind = "content") =>
        LET lines == TruncateLines(Splitlines(readcall.content))
            N == Len(lines)
            numbered == readcall.response.numbered
            footer == readcall.response.footer
            wanted == {p \in 1..N : /\ readcall.offset - 1 <= p - 1
                                    /\ p - 1 < readcall.offset - 1 + readcall.limit}
        IN  /\ {numbered[k].number : k \in 1..Len(numbered)} = wanted
            /\ \A k \in 1..Len(numbered) :
                /\ numbered[k].number \in 1..N => numbered[k].line = lines[numbered[k].number]
                /\ k > 1 => numbered[k].number = numbered[k - 1].number + 1
            /\ footer.total = N
            /\ numbered # <<>> =>
                /\ footer.first = numbered[1].number
                /\ footer.last = numbered[Len(numbered)].number

\* The relative paths of the regular files of an archive, and those of them
\* that glob is to report for a pattern and a path.
RegularFiles(members) ==
    {SplitOnce(members[i].name)[2] :
        i \in {k \in 1..Len(members) : /\ members[k].type = "file"
                                       /\ Len(SplitOnce(members[k].name)) = 2}}
GlobExpected(members, pattern, path) ==
    {f \in RegularFiles(members) :
        /\ path # <<>> =>
            \/ f = StripSlashes(path)
            \/ StartsWith(f, StripSlashes(path) \o Slash)
        /\ GlobMatch(pattern, f)}
PatternAllPy == <<"*", "*", "/", "*", ".", "p", "y">>

\* C13: for any pattern and any path scope, glob returns exactly the archive's
\* regular files that equal the scope path or lie under scope path + "/" and
\* match the pattern (a scope "src" never admits "srcfoo/x"); with files
\* src/a.py, src/b.txt, lib/c.py, pattern "**/*.py" and path "src" the result
\* is exactly src/a.py.
C13_GlobScopeAndPattern ==
    globcall.pc = "done" =>
        LET expected == GlobExpected(globcall.members, globcall.pattern, globcall.path)
            listed == {globcall.response.listed[k] : k \in 1..Len(globcall.response.listed)}
        IN  /\ globcall.response.total = Cardinality(expected)
            /\ listed \subseteq expected
            /\ Cardinality(expected) <= MAX_RESULTS => listed = expected
            /\ globcall.path = Src => Join(SrcFoo, X) \notin listed
            /\ ( /\ RegularFiles(globcall.members) =
                        {Join(Src, APy), Join(Src, BTxt), Join(Lib, CPy)}
                 /\ globcall.pattern = PatternAllPy
                 /\ globcall.path = Src )
                    => globcall.response.listed = <<Join(Src, APy)>>

\* glob has answered the example of C13.
C13_Witness ==
    /\ globcall.pc = "done"
    /\ RegularFiles(globcall.members) = {Join(Src, APy), Join(Src, BTxt), Join(Lib, CPy)}
    /\ globcall.pattern = PatternAllPy
    /\ globcall.path = Src
    /\ globcall.response.listed = <<Join(Src, APy)>>

\* C14: glob lists min(total, 100) paths, namely the first 100 matches in
\* sorted order; when total > 100 the suffix reports exactly total - 100
\* further files; when total = 0 it returns the text "No files matched the
\* pattern." and never an error.
C14_GlobCap ==
    globcall.pc = "done" =>
        LET expected == GlobExpected(globcall.members, globcall.pattern, globcall.path)
            total == Cardinality(expected)
            r == globcall.response
            listed == {r.listed[k] : k \in 1..Len(r.listed)}
        IN  IF total = 0
            THEN r.kind = "no_match" /\ r.listed = <<>>
            ELSE /\ r.kind = "listing"
                 /\ Len(r.listed) = Min(total, MAX_RESULTS)
                 /\ \A k \in 2..Len(r.listed) : StrLess(r.listed[k - 1], r.listed[k])
                 /\ listed \subseteq expected
                 /\ \A f \in expected \ listed : \A g \in listed : StrLess(g, f)
                 /\ r.more = IF total > MAX_RESULTS THEN total - MAX_RESULTS ELSE 0

\* glob has listed 100 of 102 matching files.
C14_Witness ==
    /\ globcall.pc = "done"
    /\ globcall.response.total = MAX_RESULTS + 2
    /\ Len(globcall.response.listed) = MAX_RESULTS
    /\ globcall.response.more = 2

\* The places where the pattern occurs in a text, and the most occurrences
\* that can be taken without two of them sharing a character.
Occurrences(pattern, text) == {i \in 1..Len(text) : MatchAt(pattern, text, i)}
NonOverlapping(pattern, S) ==
    \A i, j \in S : i < j => i + Len(pattern) <= j
MostNonOverlapping(pattern, text) ==
    LET sizes == {Cardinality(S) :
                    S \in {T \in SUBSET Occurrences(pattern, text) : NonOverlapping(pattern, T)}}
    IN  CHOOSE n \in sizes : \A m \in sizes : m <= n

\* C15: in count mode each entry is path:N where N is the total number of
\* non-overlapping matches in that file (not the number of matching lines),
\* and a file with zero matches produces no entry; a file with the pattern
\* twice on one line and once on another yields path:3.
C15_CountIsMatches ==
    countcall.pc = "done" =>
        LET n == MostNonOverlapping(countcall.pattern, countcall.text) IN
        /\ n = 0 => countcall.entries = <<>>
        /\ n > 0 => countcall.entries = <<[file |-> 1, count |-> n]>>
        /\ (countcall.pattern = <<"o">> /\ countcall.text = <<"o", "o", "\n", "o">>)
                => countcall.entries = <<[file |-> 1, count |-> 3]>>

\* The pattern twice on one line and once on the next has been counted.
C15_Witness ==
    /\ countcall.pc = "done"
    /\ countcall.pattern = <<"o">>
    /\ countcall.text = <<"o", "o", "\n", "o">>
    /\ countcall.entries = <<[file |-> 1, count |-> 3]>>

\* C16: for every archive, every path returned by get_file_tree can be read
\* back: get_file_content on the same archive and that path returns content
\* and never raises NotFound.
C16_ListedPathsCanBeRead ==
    acall.pc = "read" =>
        /\ acall.content.exception = None
        /\ acall.content.member \in 1..Len(acall.members)
        /\ acall.members[acall.content.member].type = "file"
        /\ acall.members[acall.content.member].name = Join(Root, acall.file_path)

\* A listed path of an archive that also holds a directory or a link has
\* been read back.
C16_Witness ==
    /\ acall.pc = "read"
    /\ acall.content.exception = None
    /\ \E i \in 1..Len(acall.members) : acall.members[i].type # "file"

\* C17: when resolve_package is given a version, the release it selects is the
\* one with that version (its last_seen is the point-in-time for commit
\* resolution, its version is used on the registry path); when no version is
\* given it selects the most recent release of the package.
C17_ReleaseByVersion ==
    selcall.pc \in {"source", "github", "registry"} =>
        /\ selcall.release \in selcall.rows
        /\ selcall.version # None => selcall.release.version = selcall.version
        /\ selcall.version = None =>
                \A o \in selcall.rows : o.first_seen <= selcall.release.first_seen
        /\ selcall.pc = "github" => selcall.timestamp = selcall.release.last_seen
        /\ selcall.pc = "registry" => selcall.release_version = selcall.release.version

\* C18: when the registry fallback is used and the registry lists no
\* sdist/tarball for the requested version, the tool call ends in a NotFound
\* outcome reported as text; it does not raise or crash.
C18_NoSdistIsReportedAsText ==
    (tcall.exception = "FileNotFoundError" /\ tcall.tarball = NoTarball) =>
        /\ tcall.pc = "returned"
        /\ Head(tcall.response) = "Error: "

\* C19: for every GitHub URL whose path starts with owner/repo, optionally
\* with a .git suffix on repo, further path segments, a query, a fragment or
\* embedded credentials, the Candidate Extractor outputs exactly
\* https://github.com/owner/repo for it (two path segments, suffix stripped);
\* e.g. https://github.com/a/b.git/issues yields https://github.com/a/b.
C19_GithubUrlIsNormalised ==
    (xcall.pc = "done" /\ xcall.url.host = GithubCom /\ xcall.url.owner = <<"a">>) =>
        xcall.candidates = <<HttpsGithubCom \o Slash \o Join(<<"a">>, <<"b">>)>>

\* C20: for every description and project-URL map that contain only
\* non-GitHub URLs (including URLs on other code hosts),
\* extract_github_candidates returns an empty result.
C20_NonGithubYieldsNothing ==
    (xcall.pc = "done" /\ xcall.url.host # GithubCom) => xcall.candidates = <<>>

Usable(row) == row.state = "stored" /\ row.is_active
Deactivated(row) == row.state = "stored" /\ ~row.is_active

\* The step in which call c completes APIKeyService.delete.
DeleteReturns(c) ==
    /\ kcall[c].pc = "retrieved"
    /\ kcall[c].op = "delete"
    /\ kcall'[c].pc = "done"
    /\ kcall'[c].exception = None

\* C21: when APIKeyService.delete(api_key_id) returns with permanent=False the
\* key's row is still stored and has is_active = False; when it returns with
\* permanent=True the row is gone; and a row leaves the table only in a step
\* of a delete call that was given permanent=True.
C21_Step ==
    /\ \A c \in KeyCalls :
          DeleteReturns(c) =>
              LET row == api_keys'[kcall[c].id] IN
              IF kcall[c].permanent THEN row.state = "removed"
              ELSE Deactivated(row)
    /\ \A id \in KeyIds :
          (api_keys[id].state = "stored" /\ api_keys'[id].state # "stored") =>
              \E c \in KeyCalls : /\ DeleteReturns(c)
                                  /\ kcall[c].id = id
                                  /\ kcall[c].permanent

C21_SoftDeleteKeepsRecord == [][C21_Step]_vars

\* A soft delete and a permanent delete have both returned True.
C21_Witness ==
    \E c1, c2 \in KeyCalls :
        /\ kcall[c1].pc = "done" /\ kcall[c1].op = "delete" /\ ~kcall[c1].permanent
        /\ kcall[c1].value = "True"
        /\ Deactivated(api_keys[kcall[c1].id])
        /\ kcall[c2].pc = "done" /\ kcall[c2].op = "delete" /\ kcall[c2].permanent
        /\ kcall[c2].value = "True"
        /\ api_keys[kcall[c2].id].state = "removed"

\* C22: a key that has been deactivated is never usable again, and
\* verify_token on the token of a key that is deactivated (or has since been
\* removed) returns no access token, without raising.
C22_Step ==
    /\ \A id \in KeyIds : ~Usable(api_keys[id]) /\ api_keys[id].state # "new"
                              => ~Usable(api_keys'[id])
    /\ \A c \in KeyCalls, id \in KeyIds :
          (/\ kcall[c].pc = "idle"
           /\ kcall'[c].op = "verify_token"
           /\ kcall'[c].token = Token(id)
           /\ ~Usable(api_keys[id]))
          => (kcall'[c].value = None /\ kcall'[c].exception = None)

C22_InactiveKeyIsRejected == [][C22_Step]_vars

\* A token was verified after its key had been deactivated.
C22_Witness ==
    \E c1, c2 \in KeyCalls :
        /\ kcall[c1].pc = "done" /\ kcall[c1].op = "delete" /\ kcall[c1].value = "True"
        /\ kcall[c2].pc = "done" /\ kcall[c2].op = "verify_token"
        /\ kcall[c2].token = Token(kcall[c1].id)
        /\ Deactivated(api_keys[kcall[c1].id])
        /\ kcall[c2].value = None

\* C30: when the package has candidates, _find_github_repos does not return an
\* empty list (with no README at all it returns every candidate), so a call
\* that ran the pipeline selects a repository for the package.
C30_NoReadmeFallsBackToAllCandidates ==
    \A c \in ResolveCalls :
        (rcall[c].extracted /\ rcall[c].pc \in {"update", "done"}
           /\ package.candidates # <<>>)
        => /\ rcall[c].scored_repos # <<>>
           /\ rcall[c].pc = "done" => (rcall[c].result # None /\ package.source_code # None)

\* C23: a grep call that is rejected for its parameters (output_mode, regex
\* syntax) has not resolved the package: no archive has been fetched for it.
C23_ValidationBeforeResolution ==
    (/\ tcall.pc = "returned"
     /\ tcall.tool = "grep"
     /\ tcall.response \in {<<"Error: ", "output_mode must be one of">>,
                            <<"Error: ", "Invalid regex pattern">>})
    => (tcall.tarball = NoTarball /\ tcall.source_label = None)

\* C24: whichever engine compiled the pattern, it is configured as the other
\* engine would be for the same case_insensitive and multiline, and with
\* multiline it has both dot-matches-newline and ^/$ as line boundaries.
C24_EnginesAgreeOnFlags ==
    recall.pc \in {"compiled", "scan"} =>
        /\ recall.settings = Re2Settings(recall.case_insensitive, recall.multiline)
        /\ recall.settings = ReSettings(recall.case_insensitive, recall.multiline)
        /\ recall.multiline => (recall.settings.dot_nl /\ recall.settings.line_anchors)

\* C25: grep never raises on a pattern: when the linear-time engine rejects it
\* or is unavailable the backtracking engine compiles it, and when that engine
\* rejects it too grep returns "Error: Invalid regex pattern".
C25_PatternNeverRaises ==
    /\ recall.pc # "propagated"
    /\ (recall.pc \in {"scan", "returned"}
          /\ (~recall.re2_available \/ ~Re2Accepts(recall.pattern)))
       => IF ReAccepts(recall.pattern)
          THEN recall.pc = "scan" /\ ~recall.using_re2
          ELSE recall.response = "Error: Invalid regex pattern"

NewlinesAt(s) == {i \in 1..Len(s) : s[i] = "\n"}
\* The position of the n-th newline of s, 0 for n = 0 and Len(s) + 1 past the last.
NthNewline(s, n) ==
    IF n = 0 THEN 0
    ELSE IF n > Cardinality(NewlinesAt(s)) THEN Len(s) + 1
    ELSE CHOOSE i \in NewlinesAt(s) : Cardinality({j \in NewlinesAt(s) : j <= i}) = n
\* Line n of s, counted from 1, without its newline.
LineOf(s, n) == SubSeq(s, NthNewline(s, n - 1) + 1, NthNewline(s, n) - 1)

\* The matches content mode reports on: the window of finditer's matches that
\* offset and head_limit select.
ReportedMatches(text, searched, offset, head_limit) ==
    LET matches == FindAll(searched, text, 1)
        last == IF head_limit > 0 THEN Min(Len(matches), offset + head_limit)
                ELSE Len(matches)
    IN  [k \in 1..Max(last - offset, 0) |-> matches[offset + k]]

\* C26: in content mode each reported match yields exactly one entry, whose
\* line number is 1 plus the number of newlines before the match start and
\* whose text is the whole line holding the match start, also for a match
\* that spans lines; and the other engine reports the same entries for the file.
C26_ContentLineNumbers ==
    mcall.pc = "done" =>
        LET text == IF mcall.using_re2 THEN mcall.raw ELSE Decode(mcall.raw)
            searched == IF mcall.using_re2 THEN Encode(mcall.pattern) ELSE mcall.pattern
            reported == ReportedMatches(text, searched, mcall.offset, mcall.head_limit)
            other == ContentEntries(mcall.raw, mcall.pattern, ~mcall.using_re2,
                                    mcall.offset, mcall.head_limit)
        IN  /\ Len(mcall.entries) = Len(reported)
            /\ \A k \in 1..Len(reported) :
                  LET before == {i \in NewlinesAt(text) : i < reported[k]}
                      whole == LineOf(text, Cardinality(before) + 1) IN
                  /\ mcall.entries[k].line_num = 1 + Cardinality(before)
                  /\ mcall.entries[k].line = IF mcall.using_re2 THEN Decode(whole) ELSE whole
            /\ Len(other) = Len(mcall.entries)
            /\ \A k \in 1..Len(other) : other[k].line_num = mcall.entries[k].line_num

\* A match that starts on line 2 and ends on line 3 was reported, by re2.
C26_Witness ==
    /\ mcall.pc = "done"
    /\ mcall.using_re2
    /\ mcall.pattern = <<"o", "\n", "o">>
    /\ mcall.raw = <<"\n", "o", "\n", "o">>
    /\ mcall.entries = <<[file |-> 1, line_num |-> 2, line |-> <<"o">>]>>

\* C27: read returns file content only when the formatted text (numbered
\* lines plus the [Lines ...] footer) has floor(length / 4) <= 25,000; above
\* that the guidance message is returned, also for calls the 256KB guard does
\* not apply to.  The files of 100,003 and of 100,004 formatted characters are
\* the last one returned and the first one refused.
C27_TokenGuard ==
    readcall.pc = "done" =>
        LET r == readcall.response IN
        /\ r.kind = "content" => OutputChars(r.numbered, r.footer) \div 4 <= MAX_TOKENS
        /\ r.kind \in {"content", "token_guard", "size_guard"}
        /\ r.kind = "size_guard" => IsDefault(readcall.offset, readcall.limit)
        /\ (IsDefault(readcall.offset, readcall.limit)
                /\ readcall.content = TokenBoundary(1978))
             => (r.kind = "content" /\ OutputChars(r.numbered, r.footer) = 100003)
        /\ (IsDefault(readcall.offset, readcall.limit)
                /\ readcall.content = TokenBoundary(1979))
             => r.kind = "token_guard"

\* A file over 256KB read with a non-default offset: the byte guard did not
\* apply and the token guard refused.
C27_Witness ==
    /\ readcall.pc = "done"
    /\ ~IsDefault(readcall.offset, readcall.limit)
    /\ ContentBytes(readcall.content) > MAX_FILE_SIZE
    /\ readcall.response.kind = "token_guard"

\* The response without its last n pieces.
DropLast(text, n) == SubSeq(text, 1, Len(text) - n)

\* text is a prefix of whole: the same pieces, the last one possibly cut short.
IsPrefixOf(text, whole) ==
    /\ Len(text) <= Len(whole)
    /\ \A i \in 1..Len(text) :
          IF i < Len(text) THEN text[i] = whole[i]
          ELSE /\ text[i].part = whole[i].part
               /\ text[i].index = whole[i].index
               /\ text[i].first = whole[i].first
               /\ text[i].last <= whole[i].last

\* C28: in a grep response that carries entries the entries portion has at
\* most 30,000 characters; joined entries above the limit are cut to exactly
\* their first 30,000 characters and followed by the truncation notice, joined
\* entries within it are kept whole with no notice; the source label is the
\* last part of the response either way.
C28_OutputCap ==
    (ocall.pc = "done" /\ ocall.entries # <<>>) =>
        LET joined == JoinEntries(ocall.entries)
            length == TextLen(joined)
            response == ocall.response
            truncated == length > MAX_OUTPUT_CHARS
            portion == DropLast(response, IF truncated THEN 3 ELSE 2)
        IN  /\ Last(response) = SourceLabel
            /\ response[Len(response) - 1] = BlankLine
            /\ TextLen(portion) <= MAX_OUTPUT_CHARS
            /\ IsPrefixOf(portion, joined)
            /\ truncated => /\ TextLen(portion) = MAX_OUTPUT_CHARS
                            /\ response[Len(response) - 2] = TruncationNotice
            /\ ~truncated => portion = joined

\* Two entries of 15,000 characters: the join has 30,001 and loses its last.
C28_Witness ==
    /\ ocall.pc = "done"
    /\ ocall.entries = <<15000, 15000>>
    /\ ocall.response = <<EntryPiece(1, 15000), Newline(1), EntryPiece(2, 14999),
                          TruncationNotice, BlankLine, SourceLabel>>

\* The file holds a NUL byte in its first 8192 bytes.
NulInSample(m) == m.nul \in 1..SAMPLE_SIZE

\* C29: a file with a NUL byte in its first 8192 bytes contributes no entry in
\* any output mode, and scanning it changes neither the entries nor the
\* count that offset and head_limit are measured against; read of such a file
\* returns its content, NUL included, and does not fail.
C29_Inv ==
    /\ \A k \in 1..Len(gcall.entries) : ~NulInSample(gcall.members[gcall.entries[k].file])
    /\ (bcall.pc = "done" /\ NulInSample(gcall.members[bcall.member]))
          => /\ bcall.exception = None
             /\ bcall.response = [kind |-> "content", has_nul |-> TRUE]

C29_Step ==
    (/\ gcall.pc = "scan"
     /\ gcall.next <= Len(gcall.members)
     /\ NulInSample(gcall.members[gcall.next])
     /\ gcall' # gcall)
    => /\ gcall'.entries = gcall.entries
       /\ gcall'.entry_count = gcall.entry_count
       /\ gcall'.pc = "scan"
       /\ gcall'.next = gcall.next + 1

C29_BinarySkippedByGrepNotByRead == []C29_Inv /\ [][C29_Step]_vars

\* C31: a _find_github_repos call in which the README fetch of one candidate
\* raised an upstream error while the fetch of another candidate returned a
\* README does not fail with that error, and what it returns ranks exactly the
\* candidates whose README was fetched.
C31_ReadmeFailureIsAbsorbed ==
    (\E i, j \in DOMAIN fcall.fetch :
        fcall.fetch[i] = "ClientResponseError" /\ fcall.fetch[j] = "content")
    => /\ ~(fcall.pc = "raised" /\ fcall.error = "ClientResponseError")
       /\ fcall.pc = "returned" =>
            {fcall.result[k].url : k \in DOMAIN fcall.result}
               = {fcall.candidates[k] : k \in {n \in DOMAIN fcall.fetch : fcall.fetch[n] = "content"}}

\* Position of a url in the candidate list.
CandidateIndex(url) == CHOOSE k \in DOMAIN fcall.candidates : fcall.candidates[k] = url

\* The candidates whose README fetch returned text.
WithReadme ==
    {fcall.candidates[k] : k \in {n \in DOMAIN fcall.fetch : fcall.fetch[n] = "content"}}

\* C32: what _find_github_repos returns holds each candidate that has a README
\* exactly once, with the similarity computed for it, ordered by non-increasing
\* similarity and, among equal similarities, in candidate order; the candidate
\* the resolver takes is the first element, one of maximal similarity.
C32_RankedByScoreStable ==
    (fcall.pc \in {"returned", "done"} /\ fcall.candidates # <<>>)
    => LET R == fcall.result IN
       /\ {R[k].url : k \in DOMAIN R} = WithReadme
       /\ Len(R) = Cardinality(WithReadme)
       /\ \A k \in DOMAIN R : \E n \in DOMAIN fcall.scored_repos : fcall.scored_repos[n] = R[k]
       /\ \A i, j \in DOMAIN R :
            i < j => /\ R[i].score >= R[j].score
                     /\ R[i].score = R[j].score
                          => CandidateIndex(R[i].url) < CandidateIndex(R[j].url)
       /\ (fcall.pc = "done" /\ R # <<>>)
            => /\ fcall.source_code = R[1].url
               /\ \A k \in DOMAIN R : R[1].score >= R[k].score
       /\ (fcall.pc = "done" /\ R = <<>>) => fcall.source_code = None

\* Three candidates have a README; the last one scores highest and the first
\* two tie, so the ranking differs from the candidate order and keeps the tie
\* in candidate order; the resolver has taken the last candidate.
C32_Witness ==
    /\ fcall.pc = "done"
    /\ Len(fcall.result) = 3
    /\ fcall.result[1].url = RepoC
    /\ fcall.result[2].url = RepoA
    /\ fcall.result[2].score = fcall.result[3].score
    /\ fcall.result[1].score > fcall.result[2].score
    /\ fcall.source_code = RepoC

\* C33: a call whose upload of the freshly computed result failed still
\* returns that result to its caller.
C33_WriteFailureStillReturns ==
    wcall.uploaded = "failed" => (wcall.pc = "done" /\ wcall.value = wcall.computed)

\* What a call read from a tier was an entry that parsed and was younger than
\* the ttl when its age was taken.
ParsedAndFresh(seen) ==
    seen.read /\ seen.ok /\ seen.blob.form = "entry" /\ seen.at - seen.blob.timestamp < ttl

\* The tiers a decorator reads.
TiersRead(call) ==
    IF call.decorator = "nfs_gcs_cache" THEN {call.seen_nfs, call.seen_gcs} ELSE {call.seen_gcs}

\* C34: a finished call of a cached function returned a cached result, without
\* invoking the wrapped function, only from a tier whose entry parsed and was
\* younger than the ttl; and when every tier was missing, unreadable,
\* unparseable or at least as old as the ttl, the wrapped function was invoked,
\* the call raised nothing of its own and returned what the function returned.
C34_CacheReadFallsThrough ==
    wcall.pc \in {"done", "raised"} =>
        /\ (wcall.pc = "done" /\ ~wcall.invoked)
             => \E seen \in TiersRead(wcall) :
                    ParsedAndFresh(seen) /\ wcall.value = seen.blob.result
        /\ (\A seen \in TiersRead(wcall) : ~ParsedAndFresh(seen))
             => /\ wcall.invoked
                /\ wcall.computed # None => (wcall.pc = "done" /\ wcall.value = wcall.computed)

\* C35: with a repository URL resolved, resolve_package calls no registry
\* fetcher, and a failed commit resolution or a failed repository archive fetch
\* ends the call with that exception; a registry fetcher is called only when
\* no repository URL was resolved.
C35_RepositoryPathOnly ==
    /\ pcall.github_url # None =>
         /\ pcall.attempted \cap RegistryFetchers = {}
         /\ pcall.pc = "returned" => pcall.source_label = "Source: GitHub repository archive"
         /\ (pcall.commit \notin {None, "ok"} \/ pcall.fetch = "upstream_error")
              => (pcall.pc = "raised" /\ pcall.exception # None)
    /\ pcall.attempted \cap RegistryFetchers # {} =>
         /\ pcall.github_url = None
         /\ pcall.attempted = {RegistryFetcher(pcall.ecosystem)}

\* The repository URL was resolved, the commit was resolved, the repository
\* archive fetch failed: the call raised and no registry fetcher was called.
C35_Witness ==
    /\ pcall.github_url = RepoA
    /\ pcall.commit = "ok"
    /\ pcall.fetch = "upstream_error"
    /\ pcall.pc = "raised"
    /\ pcall.attempted = {"get_commit_sha", "get_tarball"}

\* C36: all resolve calls made for the pinned release that returned a commit
\* returned the same SHA, whatever upserts of that release ran between them.
C36_SameCommitForSameRelease ==
    \A c1, c2 \in CommitCalls :
        (ccall[c1].pc = "done" /\ ccall[c2].pc = "done")
        => ccall[c1].commit_sha = ccall[c2].commit_sha

SetMin(S) == CHOOSE x \in S : \A y \in S : x <= y
SetMax(S) == CHOOSE x \in S : \A y \in S : x >= y

C37_Inv ==
    \A key \in ReleaseKeys :
        LET rows == ReleasesOf(releases, key) IN
        /\ Cardinality(rows) <= 1
        /\ rows = {} <=> upserts[key] = {}
        /\ \A r \in rows :
             /\ r.first_seen = SetMin(upserts[key])
             /\ r.last_seen = SetMax(upserts[key])
             /\ r.first_seen <= r.last_seen

C37_Step ==
    \A key \in ReleaseKeys :
        \A r \in ReleasesOf(releases, key) :
            \E n \in ReleasesOf(releases', key) :
                n.first_seen <= r.first_seen /\ n.last_seen >= r.last_seen

\* C37: each release row holds the minimum of the timestamps upserted for it
\* as first_seen and their maximum as last_seen (so the order of the upserts
\* does not matter and first_seen <= last_seen), and no step raises a
\* first_seen, lowers a last_seen or removes a row.
C37_SeenBoundsAreMinAndMax == []C37_Inv /\ [][C37_Step]_vars

\* A release upserted with two different timestamps, next to one upserted
\* once.
C37_Witness ==
    \E k1, k2 \in ReleaseKeys :
        /\ Cardinality(upserts[k1]) >= 2
        /\ Cardinality(upserts[k2]) = 1
        /\ \E r \in ReleasesOf(releases, k1) : r.first_seen < r.last_seen

\* C38: every change at or before the persisted cursor either names a design
\* document or names a package whose packument fetch was attempted in a run
\* that read the change.
C38_CursorCoversOnlyFetched ==
    \A i \in 1..last_seq : IsDesignDoc(changes[i]) \/ i \in fetched

\* C39: phase 2 of the npm sync loop terminates: under fair scheduling the
\* loop eventually finds no unprocessed package and completes, also when
\* packument requests answer 404 or fail.
C39_Phase2Terminates == <>(lcall.pc = "complete")

\* Phase 1 has read every change up to the persisted cursor into the table.
C40_Inv ==
    \A i \in 1..kv_store :
        IsDesignDoc(registry.changes[i]) \/ unique_package(packages, registry.changes[i]) # {}

\* A start reads on from the persisted cursor, and no step of phase 1 changes
\* or removes a row the table holds.
C40_Step ==
    /\ (lcall.pc = "idle" /\ lcall'.pc = "next") => lcall'.since = kv_store
    /\ \A r \in packages : r \in packages'
    /\ kv_store' >= kv_store

\* C40: in phase 1 the cursor is persisted only after the names of its batch
\* are registered and committed: wherever the loop stops, every package name
\* of every change up to the persisted cursor is registered and a restart
\* reads on from that cursor, and registering a package again leaves its
\* record as it was.
C40_CursorFollowsRegistration == []C40_Inv /\ [][C40_Step]_vars

\* After a restart, a batch holding an already processed package has been
\* registered again and the cursor saved past it.
C40_Witness ==
    /\ lcall.restarts >= 1
    /\ kv_store >= 1
    /\ lcall.pc = "next"
    /\ \E i \in 1..kv_store : ProcessedRow(registry.changes[i]) \in packages

====
